---- MODULE Spec2Model ----
(***************************************************************************)
(* Scope graph and validator of the BrighterScript compiler front-end.     *)
(* The Scope class (Scope.ts) is modelled as a state machine over a small  *)
(* program: two scopes (the global scope and the source scope), three      *)
(* files, the shared dependency graph and the plugin bus.  validate() is   *)
(* split at the two points where it calls out to plugin handlers, so that  *)
(* what a handler does while validate() is running is part of the model.   *)
(***************************************************************************)
EXTENDS Integers, Sequences, FiniteSets, TLC

VARIABLES
    dependencies,   \* dependency graph: key -> ordered list of direct dependency keys
    files,          \* program.files: the set of pkgPaths that are loaded
    subscribed,     \* scopes whose onchange subscription is still connected
    isValidated,    \* Scope.isValidated, per scope
    cache,          \* Scope.cache, per scope: slot -> value
    diagnostics,    \* Scope.diagnostics, per scope
    stack,          \* the running validate() calls, outermost first
    plugin,         \* the events at which the installed plugin contributes a diagnostic
    lastOp,         \* the operation the last step performed, with what it returned
    ops,            \* how many operations the host and the handlers have called
    handlerActed,   \* whether a handler has ever called an operation from inside validate()
    noisy,          \* the depths of the running calls during which a handler called an operation
    lastRun         \* per scope: how far the calls validate(); invalidate(); validate() have come

vars == <<dependencies, files, subscribed, isValidated, cache, diagnostics,
          stack, plugin, lastOp, ops, handlerActed, noisy, lastRun>>

\* ------------------------------------------------------------------ bounds

\* how many operations the host and the plugin handlers call in one run of the
\* program (the steps inside validate() are not counted)
MaxOps == 4

\* how many dependencies the source scope's key starts with, and how many
\* operations are called, when the program is created with a given file list
MaxDeps == 2
MaxQueries == 2

\* ------------------------------------------------------------ the program

GlobalScope == "global"
SourceScope == "source"
Scopes == {GlobalScope, SourceScope}

FA == "source/a.brs"
FB == "source/B.brs"
FG == "common/g.brs"
FC == "source/c.bs"
FT == "source/t.brs"
FH == "common/h.brs"
FP == "source/p.brs"
PkgPaths == {FA, FB, FG, FC, FT, FH, FP}

\* files that only declare namespaces
FN1 == "source/n1.brs"
FN2 == "source/n2.brs"
FN3 == "source/n3.brs"
NamespacePaths == {FN1, FN2, FN3}

\* Scope.dependencyGraphKey
dependencyGraphKey(s) == IF s = GlobalScope THEN "scope:global" ELSE "scope:source"

ScopeKeys == {dependencyGraphKey(s) : s \in Scopes}
Keys == ScopeKeys \cup PkgPaths

\* the files the program loads and removes while it runs; the others stay loaded
Loadable == {FB}

\* the files the program may attach to and detach from each scope's key; the
\* global scope's file list is fixed when the program is created
Attachable(s) == IF s = GlobalScope THEN {} ELSE {FA, FB}

Slots == {"getAllFiles", "classMap", "namespaceLookup"}

Range(q) == {q[i] : i \in 1..Len(q)}

\* String.prototype.toLowerCase over the names the program uses
toLowerCase(str) ==
    CASE str = "Main" -> "main"
      [] str = "Foo" -> "foo"
      [] str = "Helper" -> "helper"
      [] str = "Init" -> "init"
      [] str = "Net" -> "net"
      [] str = "Http" -> "http"
      [] str = "Widget" -> "widget"
      [] str = "Gadget" -> "gadget"
      [] str = "Tee" -> "tee"
      [] str = "Ty" -> "ty"
      [] str = "Undefined" -> "undefined"
      [] str = "FOO" -> "foo"
      [] str = "HELPER" -> "helper"
      [] str = "NET" -> "net"
      [] str = "Constructor" -> "constructor"
      [] str = "Client" -> "client"
      [] str = "source/B.brs" -> "source/b.brs"
      [] str = "Source/b.brs" -> "source/b.brs"
      [] OTHER -> str

\* String.prototype.localeCompare over the same names, as a rank
localeRank(str) ==
    CASE str = "" -> 0
      [] str = "common/g.brs" -> 1
      [] str = "common/h.brs" -> 2
      [] str = "foo" -> 3
      [] str = "Foo" -> 4
      [] str = "helper" -> 5
      [] str = "Helper" -> 6
      [] str = "init" -> 7
      [] str = "Init" -> 8
      [] str = "Main" -> 9
      [] str = "source/a.brs" -> 10
      [] str = "source/B.brs" -> 11
      [] str = "source/c.bs" -> 12
      [] str = "source/t.brs" -> 13
      [] str = "Tee" -> 14
      [] str = "widget" -> 15
      [] OTHER -> 16

\* a parsed file as the scope sees it (BscFile)
BscFile(p) ==
    CASE p = FA ->
           [pkgPath |-> FA, pathAbsolute |-> FA, extension |-> ".brs", hasTypedef |-> FALSE,
            callables |-> << [name |-> "Main", params |-> <<>>, hasNamespace |-> FALSE],
                             [name |-> "init", params |-> <<>>, hasNamespace |-> FALSE] >>,
            functionCalls |-> << [name |-> "Foo", args |-> 3, hasLocalVar |-> FALSE],
                                 [name |-> "helper", args |-> 1, hasLocalVar |-> FALSE],
                                 [name |-> "super", args |-> 0, hasLocalVar |-> FALSE] >>,
            variableDeclarations |-> << [name |-> "widget", isFunctionType |-> FALSE] >>,
            classStatements |-> <<>>,
            namespaceStatements |-> <<>>,
            parameters |-> << "net" >>,
            assignmentStatements |-> <<>>,
            scriptImports |-> << [pkgPath |-> "Source/b.brs", text |-> "Source/b.brs"] >>,
            imports |-> << FB >>,
            diagnostics |-> << [code |-> "parseError", file |-> FA, at |-> 1, arg |-> <<>>],
                               [code |-> "suppressedByComment", file |-> FA, at |-> 2, arg |-> <<>>] >>]
      [] p = FB ->
           [pkgPath |-> FB, pathAbsolute |-> FB, extension |-> ".brs", hasTypedef |-> FALSE,
            callables |-> << [name |-> "Foo", params |-> <<>>, hasNamespace |-> FALSE],
                             [name |-> "foo", params |-> <<FALSE, TRUE>>, hasNamespace |-> FALSE] >>,
            functionCalls |-> <<>>,
            variableDeclarations |-> <<>>,
            classStatements |-> << "Widget" >>,
            namespaceStatements |-> << [parts |-> <<"Net", "Http">>, body |-> <<>>] >>,
            parameters |-> <<>>,
            assignmentStatements |-> <<>>,
            scriptImports |-> <<>>,
            imports |-> <<>>,
            diagnostics |-> <<>>]
      [] p = FC ->
           [pkgPath |-> FC, pathAbsolute |-> FC, extension |-> ".bs", hasTypedef |-> FALSE,
            callables |-> << [name |-> "Helper", params |-> <<>>, hasNamespace |-> FALSE],
                             [name |-> "foo", params |-> <<>>, hasNamespace |-> FALSE],
                             [name |-> "Init", params |-> <<>>, hasNamespace |-> FALSE],
                             [name |-> "", params |-> <<>>, hasNamespace |-> FALSE] >>,
            functionCalls |-> << [name |-> "super", args |-> 0, hasLocalVar |-> FALSE],
                                 [name |-> "Undefined", args |-> 0, hasLocalVar |-> TRUE],
                                 [name |-> "Undefined", args |-> 0, hasLocalVar |-> FALSE],
                                 [name |-> "foo", args |-> 0, hasLocalVar |-> FALSE] >>,
            variableDeclarations |-> << [name |-> "helper", isFunctionType |-> TRUE],
                                        [name |-> "foo", isFunctionType |-> TRUE],
                                        [name |-> "Helper", isFunctionType |-> FALSE],
                                        [name |-> "main", isFunctionType |-> FALSE],
                                        [name |-> "Widget", isFunctionType |-> TRUE],
                                        [name |-> "widget", isFunctionType |-> FALSE],
                                        [name |-> "Foo", isFunctionType |-> FALSE],
                                        [name |-> "other", isFunctionType |-> FALSE] >>,
            classStatements |-> << "Foo", "Helper" >>,
            namespaceStatements |-> <<>>,
            parameters |-> <<>>,
            assignmentStatements |-> << "NET", "http" >>,
            scriptImports |-> << [pkgPath |-> "source/a.brs", text |-> "source/a.brs"],
                               [pkgPath |-> "", text |-> " "],
                               [pkgPath |-> "source/t.brs", text |-> "source/t.brs"] >>,
            imports |-> <<>>,
            diagnostics |-> <<>>]
      [] p = FT ->
           [pkgPath |-> FT, pathAbsolute |-> FT, extension |-> ".brs", hasTypedef |-> TRUE,
            callables |-> << [name |-> "Tee", params |-> <<>>, hasNamespace |-> FALSE] >>,
            functionCalls |-> << [name |-> "Undefined", args |-> 0, hasLocalVar |-> FALSE] >>,
            variableDeclarations |-> << [name |-> "Main", isFunctionType |-> TRUE] >>,
            classStatements |-> << "Gadget" >>,
            namespaceStatements |-> << [parts |-> <<"Ty">>, body |-> <<>>] >>,
            parameters |-> << "net" >>,
            assignmentStatements |-> <<>>,
            scriptImports |-> << [pkgPath |-> "source/none.brs", text |-> "source/none.brs"] >>,
            imports |-> <<>>,
            diagnostics |-> << [code |-> "parseError", file |-> FT, at |-> 1, arg |-> <<>>] >>]
      [] p = FP ->
           [pkgPath |-> FP, pathAbsolute |-> FP, extension |-> ".brs", hasTypedef |-> FALSE,
            callables |-> <<>>,
            functionCalls |-> <<>>,
            variableDeclarations |-> <<>>,
            classStatements |-> <<>>,
            namespaceStatements |-> <<>>,
            parameters |-> << "Net", "Constructor", "Http" >>,
            assignmentStatements |-> << "net" >>,
            scriptImports |-> <<>>,
            imports |-> <<>>,
            diagnostics |-> <<>>]
      [] p = FN1 ->
           [pkgPath |-> FN1, pathAbsolute |-> FN1, extension |-> ".brs", hasTypedef |-> FALSE,
            callables |-> <<>>,
            functionCalls |-> <<>>,
            variableDeclarations |-> <<>>,
            classStatements |-> <<>>,
            namespaceStatements |-> << [parts |-> <<"Net">>, body |-> <<"n1.a">>],
                                       [parts |-> <<"NET", "Http">>, body |-> <<"n1.b", "n1.c">>] >>,
            parameters |-> <<>>,
            assignmentStatements |-> <<>>,
            scriptImports |-> <<>>,
            imports |-> <<>>,
            diagnostics |-> <<>>]
      [] p = FN2 ->
           [pkgPath |-> FN2, pathAbsolute |-> FN2, extension |-> ".brs", hasTypedef |-> FALSE,
            callables |-> <<>>,
            functionCalls |-> <<>>,
            variableDeclarations |-> <<>>,
            classStatements |-> <<>>,
            namespaceStatements |-> << [parts |-> <<"net", "http", "Client">>, body |-> <<"n2.a">>],
                                       [parts |-> <<"Net">>, body |-> <<"n2.b">>] >>,
            parameters |-> <<>>,
            assignmentStatements |-> <<>>,
            scriptImports |-> <<>>,
            imports |-> <<>>,
            diagnostics |-> <<>>]
      [] p = FN3 ->
           [pkgPath |-> FN3, pathAbsolute |-> FN3, extension |-> ".brs", hasTypedef |-> FALSE,
            callables |-> <<>>,
            functionCalls |-> <<>>,
            variableDeclarations |-> <<>>,
            classStatements |-> <<>>,
            namespaceStatements |-> << [parts |-> <<"Http">>, body |-> <<"n3.a">>],
                                       [parts |-> <<"Constructor">>, body |-> <<"n3.b">>] >>,
            parameters |-> <<>>,
            assignmentStatements |-> <<>>,
            scriptImports |-> <<>>,
            imports |-> <<>>,
            diagnostics |-> <<>>]
      [] p = FH ->
           [pkgPath |-> FH, pathAbsolute |-> FH, extension |-> ".brs", hasTypedef |-> FALSE,
            callables |-> << [name |-> "Helper", params |-> <<>>, hasNamespace |-> FALSE],
                             [name |-> "helper", params |-> <<>>, hasNamespace |-> FALSE] >>,
            functionCalls |-> <<>>,
            variableDeclarations |-> <<>>,
            classStatements |-> <<>>,
            namespaceStatements |-> <<>>,
            parameters |-> <<>>,
            assignmentStatements |-> <<>>,
            scriptImports |-> <<>>,
            imports |-> <<>>,
            diagnostics |-> <<>>]
      [] OTHER ->
           [pkgPath |-> FG, pathAbsolute |-> FG, extension |-> ".brs", hasTypedef |-> FALSE,
            callables |-> << [name |-> "helper", params |-> <<>>, hasNamespace |-> FALSE] >>,
            functionCalls |-> <<>>,
            variableDeclarations |-> <<>>,
            classStatements |-> <<>>,
            namespaceStatements |-> <<>>,
            parameters |-> <<>>,
            assignmentStatements |-> <<>>,
            scriptImports |-> <<>>,
            imports |-> <<>>,
            diagnostics |-> <<>>]

\* ------------------------------------------------------- dependency graph

\* DependencyGraph.getAllDependencies: the transitive dependencies of a key,
\* each once, in traversal order
RECURSIVE walkDependencies(_, _, _)
walkDependencies(graph, todo, seen) ==
    IF todo = <<>> THEN seen
    ELSE LET k == Head(todo)
         IN  IF k \in Range(seen)
             THEN walkDependencies(graph, Tail(todo), seen)
             ELSE walkDependencies(graph, graph[k] \o Tail(todo), Append(seen, k))

getAllDependencies(graph, key) == walkDependencies(graph, graph[key], <<>>)

\* the keys whose subscribers hear of a change of node `key`: the node itself and
\* every node that reaches it
dependentsOf(graph, key) ==
    {k \in Keys : k = key \/ key \in Range(getAllDependencies(graph, k))}

\* the keys that name a component rather than a file
ComponentKeys == {"component:Widget"}

\* dependency.startsWith('component:')
startsWithComponent(key) == key \in ComponentKeys

\* dependency.replace(/$component:/, ''): the pattern asks for the end of the
\* input before the word, matches nothing, and the key is returned as it is
replaceComponentPrefix(key) == key

\* Program.getComponent(name): the registered component's file, by component name
componentNames == {"Widget"}
hasComponent(name) == name \in componentNames
componentFile(name) == "components/Widget.xml"

\* ------------------------------------------------------------------ Scope

\* a variant of getParentScope that returns the global scope to every scope
getParentScopeAlwaysGlobal(s) == GlobalScope

\* Scope.getParentScope
getParentScope(s) == IF s # GlobalScope THEN GlobalScope ELSE "none"

hasParentScope(s) == getParentScope(s) # "none"

RECURSIVE collectFiles(_)
collectFiles(deps) ==
    IF deps = <<>> THEN <<>>
    ELSE LET dependency == Head(deps)
             rest == collectFiles(Tail(deps))
         IN  IF startsWithComponent(dependency)
             THEN IF hasComponent(replaceComponentPrefix(dependency))
                  THEN <<componentFile(replaceComponentPrefix(dependency))>> \o rest
                  ELSE rest
             ELSE IF dependency \in files THEN <<dependency>> \o rest ELSE rest

\* the factory of Scope.getAllFiles
computeAllFiles(s) == collectFiles(getAllDependencies(dependencies, dependencyGraphKey(s)))

\* Cache.getOrAdd: the stored value when the slot is filled, the factory's otherwise
getOrAdd(c, slot, fresh) == IF slot \in DOMAIN c THEN c[slot] ELSE fresh

\* the slot as Cache.getOrAdd leaves it
stored(c, slot, fresh) ==
    [k \in DOMAIN c \cup {slot} |-> IF k \in DOMAIN c THEN c[k] ELSE fresh]

\* Scope.getAllFiles, read through the cache `c` of scope s
getAllFiles(c, s) == getOrAdd(c, "getAllFiles", computeAllFiles(s))

\* Scope.getOwnFiles
getOwnFiles(c, s) == getAllFiles(c, s)

\* a variant of the filter that lets every file through
anyFile(p) == TRUE

\* the test `!file.hasTypedef` of enumerateAllFiles and enumerateOwnFiles
notTypedef(p) == ~BscFile(p).hasTypedef

\* Scope.enumerateAllFiles / enumerateOwnFiles: the files the callback is called with
enumerateAllFiles(c, s) == SelectSeq(getAllFiles(c, s), notTypedef)
enumerateOwnFiles(c, s) == SelectSeq(getOwnFiles(c, s), notTypedef)

RECURSIVE flatten(_)
flatten(qs) == IF qs = <<>> THEN <<>> ELSE Head(qs) \o flatten(Tail(qs))

containersOf(p, s) ==
    [i \in 1..Len(BscFile(p).callables) |->
        [name |-> BscFile(p).callables[i].name, file |-> p, index |-> i, scope |-> s]]

\* Scope.getOwnCallables
getOwnCallables(c, s) ==
    LET fs == enumerateOwnFiles(c, s)
    IN  flatten([i \in 1..Len(fs) |-> containersOf(fs[i], s)])

\* a variant of getAllCallables that lists the parent's callables first
getAllCallablesParentFirst(cs, s) ==
    IF hasParentScope(s)
    THEN getOwnCallables(cs[getParentScope(s)], getParentScope(s)) \o getOwnCallables(cs[s], s)
    ELSE getOwnCallables(cs[s], s)

\* Scope.getAllCallables; cs is the cache of every scope
getAllCallables(cs, s) ==
    IF hasParentScope(s)
    THEN getOwnCallables(cs[s], s) \o getOwnCallables(cs[getParentScope(s)], getParentScope(s))
    ELSE getOwnCallables(cs[s], s)

\* the callable a container holds, and the value returned when none is found
callableOf(container) ==
    [name |-> container.name, file |-> container.file, index |-> container.index]
noCallable == [name |-> "", file |-> "none", index |-> 0]

\* Scope.getCallableByName
getCallableByName(cs, s, name) ==
    LET lowerName == toLowerCase(name)
        callables == getAllCallables(cs, s)
        matching == SelectSeq(callables, LAMBDA x : toLowerCase(x.name) = lowerName)
    IN  IF matching = <<>> THEN noCallable ELSE callableOf(matching[1])

\* the comparator of the sort in Scope.validate: by path, then by name
comesBefore(a, b) ==
    \/ localeRank(BscFile(a.file).pathAbsolute) < localeRank(BscFile(b.file).pathAbsolute)
    \/ /\ localeRank(BscFile(a.file).pathAbsolute) = localeRank(BscFile(b.file).pathAbsolute)
       /\ localeRank(a.name) < localeRank(b.name)

\* insert x after the last element that does not come after it (a stable sort)
RECURSIVE insertSorted(_, _)
insertSorted(q, x) ==
    IF q = <<>> THEN <<x>>
    ELSE IF comesBefore(x, Head(q)) THEN <<x>> \o q
         ELSE <<Head(q)>> \o insertSorted(Tail(q), x)

\* a variant of the sort that leaves the list as it is
keepOrder(q) == q

RECURSIVE sortCallables(_)
sortCallables(q) ==
    IF q = <<>> THEN <<>>
    ELSE insertSorted(sortCallables(SubSeq(q, 1, Len(q) - 1)), q[Len(q)])

lowerNameOf(container) == toLowerCase(container.name)

\* util.getCallableContainersByLowerName: the list stored under one lower-case name
containersNamed(callables, lowerName) ==
    SelectSeq(callables, LAMBDA x : lowerNameOf(x) = lowerName)

\* the keys of that map, in insertion order
RECURSIVE lowerNames(_, _)
lowerNames(callables, seen) ==
    IF callables = <<>> THEN seen
    ELSE IF lowerNameOf(Head(callables)) \in Range(seen)
         THEN lowerNames(Tail(callables), seen)
         ELSE lowerNames(Tail(callables), Append(seen, lowerNameOf(Head(callables))))

\* the factory of Scope.getClassMap: lower-case name -> the class statement, the last one wins
classEntries(fs) ==
    flatten([i \in 1..Len(fs) |->
        [j \in 1..Len(BscFile(fs[i]).classStatements) |->
            [name |-> BscFile(fs[i]).classStatements[j], file |-> fs[i]]]])

computeClassMap(c, s) ==
    LET es == classEntries(enumerateAllFiles(c, s))
        names == {toLowerCase(es[i].name) : i \in 1..Len(es)}
    IN  [n \in names |->
            es[CHOOSE i \in 1..Len(es) :
                  /\ toLowerCase(es[i].name) = n
                  /\ \A j \in (i + 1)..Len(es) : toLowerCase(es[j].name) # n]]

getClassMap(c, s) == getOrAdd(c, "classMap", computeClassMap(c, s))

lowerParts(parts) == [i \in 1..Len(parts) |-> toLowerCase(parts[i])]

\* the loop over nameParts in Scope.buildNamespaceLookup: every prefix gets an
\* entry, made by the first statement that names it
RECURSIVE ensurePrefixes(_, _, _, _, _)
ensurePrefixes(lookup, file, index, parts, k) ==
    IF k > Len(parts) THEN lookup
    ELSE LET loopName == SubSeq(parts, 1, k)
             lowerLoopName == lowerParts(loopName)
         IN  IF lowerLoopName \in Range(lookup.keys)
             THEN ensurePrefixes(lookup, file, index, parts, k + 1)
             ELSE ensurePrefixes(
                    [keys |-> Append(lookup.keys, lowerLoopName),
                     at |-> [key \in DOMAIN lookup.at \cup {lowerLoopName} |->
                               IF key \in DOMAIN lookup.at THEN lookup.at[key]
                               ELSE [file |-> file,
                                     fullName |-> loopName,
                                     nameRange |-> <<file, index>>,
                                     lastPartName |-> parts[k],
                                     namespaces |-> <<>>,
                                     statements |-> <<>>]]],
                    file, index, parts, k + 1)

\* one namespace statement of a file
addNamespace(lookup, file, index) ==
    LET namespace == BscFile(file).namespaceStatements[index]
        withPrefixes == ensurePrefixes(lookup, file, index, namespace.parts, 1)
        name == lowerParts(namespace.parts)
    IN  [withPrefixes EXCEPT !.at[name].statements = @ \o namespace.body]

RECURSIVE addNamespaces(_, _, _)
addNamespaces(lookup, file, index) ==
    IF index > Len(BscFile(file).namespaceStatements) THEN lookup
    ELSE addNamespaces(addNamespace(lookup, file, index), file, index + 1)

\* "associate child namespaces with their parents", one key after the other
RECURSIVE associate(_, _)
associate(lookup, i) ==
    IF i > Len(lookup.keys) THEN lookup
    ELSE LET key == lookup.keys[i]
             ns == lookup.at[key]
             parts == ns.fullName
         IN  IF Len(parts) > 1
             THEN LET parentName == lowerParts(SubSeq(parts, 1, Len(parts) - 1))
                      last == toLowerCase(ns.lastPartName)
                      before == lookup.at[parentName].namespaces
                  IN  associate(
                        [lookup EXCEPT !.at[parentName].namespaces =
                            [n \in DOMAIN before \cup {last} |-> IF n = last THEN key ELSE before[n]]],
                        i + 1)
             ELSE associate(lookup, i + 1)

RECURSIVE namespacesOfFiles(_, _)
namespacesOfFiles(lookup, fs) ==
    IF fs = <<>> THEN lookup
    ELSE namespacesOfFiles(associate(addNamespaces(lookup, Head(fs), 1), 1), Tail(fs))

\* the lower-case names that Object.prototype gives a value to in every plain object
ObjectPrototypeKeys == {"constructor", "__proto__"}

\* whether Scope.buildNamespaceLookup throws a TypeError: the lookup is a plain
\* object, so for a namespace whose first part is a name of Object.prototype the
\* `??` keeps the inherited value and makes no entry; reading .statements,
\* .fullName or .namespaces of that value then gives undefined
buildNamespaceLookupThrows(c, s) ==
    \E f \in Range(enumerateAllFiles(c, s)) :
        \E i \in 1..Len(BscFile(f).namespaceStatements) :
            toLowerCase(BscFile(f).namespaceStatements[i].parts[1]) \in ObjectPrototypeKeys

\* Scope.buildNamespaceLookup, when it returns
buildNamespaceLookup(c, s) ==
    IF buildNamespaceLookupThrows(c, s) THEN [keys |-> <<>>, at |-> <<>>]
    ELSE namespacesOfFiles([keys |-> <<>>, at |-> <<>>], enumerateAllFiles(c, s))

\* Scope.namespaceLookup
namespaceLookup(c, s) == getOrAdd(c, "namespaceLookup", buildNamespaceLookup(c, s))

\* whether reading Scope.namespaceLookup throws: the factory runs and throws
namespaceLookupThrows(c, s) ==
    "namespaceLookup" \notin DOMAIN c /\ buildNamespaceLookupThrows(c, s)

\* a dotted name as the sequence of its parts (the names the program uses)
splitDots(str) ==
    CASE str = "net.http" -> <<"net", "http">>
      [] str = "Net.Http" -> <<"Net", "Http">>
      [] OTHER -> <<str>>

\* a === b \/ a.startsWith(b + '.'), on names given as their parts
equalsOrStartsWith(a, b) ==
    /\ Len(b) <= Len(a)
    /\ SubSeq(a, 1, Len(b)) = b

\* what the callback isKnownNamespace passes to enumerateAllFiles returns for
\* each file; enumerateAllFiles drops the callback's result
knownNamespaceCallbacks(c, s, namespaceName) ==
    LET namespaceNameLower == lowerParts(splitDots(namespaceName))
        fs == enumerateAllFiles(c, s)
    IN  [i \in 1..Len(fs) |->
            \E k \in 1..Len(BscFile(fs[i]).namespaceStatements) :
                equalsOrStartsWith(lowerParts(BscFile(fs[i]).namespaceStatements[k].parts),
                                   namespaceNameLower)]

\* Scope.isKnownNamespace: the callbacks run and the method returns false
isKnownNamespace(c, s, namespaceName) ==
    LET callbacks == knownNamespaceCallbacks(c, s, namespaceName)
    IN  (Len(callbacks) >= 0) /\ FALSE

\* ------------------------------------------------------------ diagnostics

\* a diagnostic: the message's code and arguments, the file, and the place in it
diagnostic(code, file, at, arg) == [code |-> code, file |-> file, at |-> at, arg |-> arg]

\* globalCallableMap: the lower-case names of the standard library
globalCallableMap == {"helper"}

\* a variant of the loop that names the first ancestor container, not the last
duplicatesOfNameFirstAncestor(s, callables, lowerName) ==
    LET callableContainers == containersNamed(callables, lowerName)
        ownCallables ==
            SelectSeq(callableContainers, LAMBDA x : x.scope # GlobalScope /\ x.scope = s)
        ancestorNonGlobalCallables ==
            SelectSeq(callableContainers, LAMBDA x : x.scope # GlobalScope /\ x.scope # s)
        shadowedCallable == ancestorNonGlobalCallables[1]
        overrides ==
            IF Len(ownCallables) > 0 /\ Len(ancestorNonGlobalCallables) > 0
            THEN flatten([i \in 1..Len(ownCallables) |->
                    IF lowerName # "init" /\ shadowedCallable.file # ownCallables[i].file
                    THEN << diagnostic("overridesAncestorFunction", ownCallables[i].file,
                                       ownCallables[i].index,
                                       <<ownCallables[i].name, ownCallables[i].scope,
                                         BscFile(shadowedCallable.file).pkgPath,
                                         shadowedCallable.scope>>) >>
                    ELSE <<>>])
            ELSE <<>>
        duplicates ==
            IF Len(ownCallables) > 1
            THEN [i \in 1..Len(ownCallables) |->
                    diagnostic("duplicateFunctionImplementation", ownCallables[i].file,
                               ownCallables[i].index,
                               <<ownCallables[i].name, ownCallables[i].scope>>)]
            ELSE <<>>
    IN  overrides \o duplicates

\* one name of the loop in Scope.diagnosticFindDuplicateFunctionDeclarations
duplicatesOfName(s, callables, lowerName) ==
    LET callableContainers == containersNamed(callables, lowerName)
        ownCallables ==
            SelectSeq(callableContainers, LAMBDA x : x.scope # GlobalScope /\ x.scope = s)
        ancestorNonGlobalCallables ==
            SelectSeq(callableContainers, LAMBDA x : x.scope # GlobalScope /\ x.scope # s)
        shadowedCallable == ancestorNonGlobalCallables[Len(ancestorNonGlobalCallables)]
        overrides ==
            IF Len(ownCallables) > 0 /\ Len(ancestorNonGlobalCallables) > 0
            THEN flatten([i \in 1..Len(ownCallables) |->
                    IF lowerName # "init" /\ shadowedCallable.file # ownCallables[i].file
                    THEN << diagnostic("overridesAncestorFunction", ownCallables[i].file,
                                       ownCallables[i].index,
                                       <<ownCallables[i].name, ownCallables[i].scope,
                                         BscFile(shadowedCallable.file).pkgPath,
                                         shadowedCallable.scope>>) >>
                    ELSE <<>>])
            ELSE <<>>
        duplicates ==
            IF Len(ownCallables) > 1
            THEN [i \in 1..Len(ownCallables) |->
                    diagnostic("duplicateFunctionImplementation", ownCallables[i].file,
                               ownCallables[i].index,
                               <<ownCallables[i].name, ownCallables[i].scope>>)]
            ELSE <<>>
    IN  overrides \o duplicates

\* Scope.diagnosticFindDuplicateFunctionDeclarations
diagnosticFindDuplicateFunctionDeclarations(s, callables) ==
    LET names == lowerNames(callables, <<>>)
    IN  flatten([i \in 1..Len(names) |-> duplicatesOfName(s, callables, names[i])])

\* String.prototype.trim over the import texts the program uses
trim(str) == IF str = " " THEN "" ELSE str

\* a variant of getFileByRelativePath that compares the paths as they are written
getFileByExactPath(c, s, relativePath) ==
    LET fs == getAllFiles(c, s)
        hits == {i \in 1..Len(fs) : BscFile(fs[i]).pkgPath = relativePath}
    IN  IF hits = {} THEN "none"
        ELSE fs[CHOOSE i \in hits : \A j \in hits : i <= j]

\* Scope.getFileByRelativePath: the first file whose pkgPath matches without case, or "none"
getFileByRelativePath(c, s, relativePath) ==
    LET fs == getAllFiles(c, s)
        hits == {i \in 1..Len(fs) :
                    toLowerCase(BscFile(fs[i]).pkgPath) = toLowerCase(relativePath)}
    IN  IF hits = {} THEN "none"
        ELSE fs[CHOOSE i \in hits : \A j \in hits : i <= j]

\* Scope.getOwnScriptImports, each import with its source file and its place in it
getOwnScriptImports(c, s) ==
    LET fs == enumerateOwnFiles(c, s)
    IN  flatten([i \in 1..Len(fs) |->
            [j \in 1..Len(BscFile(fs[i]).scriptImports) |->
                [sourceFile |-> fs[i], index |-> j,
                 pkgPath |-> BscFile(fs[i]).scriptImports[j].pkgPath,
                 text |-> BscFile(fs[i]).scriptImports[j].text]]])

\* Scope.diagnosticValidateScriptImportPaths
diagnosticValidateScriptImportPaths(c, s) ==
    LET scriptImports == getOwnScriptImports(c, s)
    IN  flatten([i \in 1..Len(scriptImports) |->
            LET scriptImport == scriptImports[i]
                referencedFile == getFileByRelativePath(c, s, scriptImport.pkgPath)
            IN  IF referencedFile = "none"
                THEN << diagnostic(IF trim(scriptImport.text) = "" THEN "scriptSrcCannotBeEmpty"
                                   ELSE "referencedFileDoesNotExist",
                                   scriptImport.sourceFile, scriptImport.index, <<>>) >>
                ELSE IF scriptImport.pkgPath # BscFile(referencedFile).pkgPath
                     THEN << diagnostic("scriptImportCaseMismatch", scriptImport.sourceFile,
                                        scriptImport.index,
                                        <<BscFile(referencedFile).pkgPath>>) >>
                     ELSE <<>>])

\* BsClassValidator.validate: one diagnostic for every class statement whose
\* lower-case name an earlier class statement of the scope's files has
classValidatorDiagnostics(c, s) ==
    LET es == classEntries(enumerateAllFiles(c, s))
    IN  flatten([i \in 1..Len(es) |->
            IF \E j \in 1..(i - 1) : toLowerCase(es[j].name) = toLowerCase(es[i].name)
            THEN << diagnostic("duplicateClassDeclaration", es[i].file, i, <<es[i].name>>) >>
            ELSE <<>>])

\* Scope.validateClasses
validateClasses(c, s) == classValidatorDiagnostics(c, s)

\* Scope.diagnosticDetectCallsToUnknownFunctions
\* a variant of the check that does not look for a local variable of that name
diagnosticDetectCallsIgnoringVariables(s, file, callables) ==
    LET calls == BscFile(file).functionCalls
    IN  flatten([i \in 1..Len(calls) |->
            LET lowerName == toLowerCase(calls[i].name)
            IN  IF BscFile(file).extension = ".bs" /\ lowerName = "super" THEN <<>>
                ELSE IF containersNamed(callables, lowerName) = <<>>
                     THEN << diagnostic("callToUnknownFunction", file, i, <<calls[i].name, s>>) >>
                     ELSE <<>>])

diagnosticDetectCallsToUnknownFunctions(s, file, callables) ==
    LET calls == BscFile(file).functionCalls
    IN  flatten([i \in 1..Len(calls) |->
            LET lowerName == toLowerCase(calls[i].name)
            IN  IF BscFile(file).extension = ".bs" /\ lowerName = "super" THEN <<>>
                ELSE IF ~calls[i].hasLocalVar /\ containersNamed(callables, lowerName) = <<>>
                     THEN << diagnostic("callToUnknownFunction", file, i, <<calls[i].name, s>>) >>
                     ELSE <<>>])

paramsOf(container) == BscFile(container.file).callables[container.index].params

\* a variant of the arity check that counts optional parameters as required
diagnosticDetectWrongParamCountAllRequired(file, callables) ==
    LET calls == BscFile(file).functionCalls
    IN  flatten([i \in 1..Len(calls) |->
            LET named == containersNamed(callables, toLowerCase(calls[i].name))
            IN  IF named = <<>> THEN <<>>
                ELSE LET params == paramsOf(named[1])
                         maxParams == Len(params)
                     IN  IF calls[i].args # maxParams
                         THEN << diagnostic("mismatchArgumentCount", file, i,
                                            <<ToString(maxParams), ToString(calls[i].args)>>) >>
                         ELSE <<>>])

\* Scope.diagnosticDetectFunctionCallsWithWrongParamCount
diagnosticDetectFunctionCallsWithWrongParamCount(file, callables) ==
    LET calls == BscFile(file).functionCalls
    IN  flatten([i \in 1..Len(calls) |->
            LET named == containersNamed(callables, toLowerCase(calls[i].name))
            IN  IF named = <<>> THEN <<>>
                ELSE LET params == paramsOf(named[1])
                         maxParams == Len(params)
                         minParams == Cardinality({k \in 1..Len(params) : params[k] = FALSE})
                         minMaxParamsText ==
                             IF minParams = maxParams THEN ToString(maxParams)
                             ELSE ToString(minParams) \o "-" \o ToString(maxParams)
                     IN  IF calls[i].args > maxParams \/ calls[i].args < minParams
                         THEN << diagnostic("mismatchArgumentCount", file, i,
                                            <<minMaxParamsText, ToString(calls[i].args)>>) >>
                         ELSE <<>>])

\* a variant of the check that looks in the callable map before the built-ins
diagnosticDetectShadowedLocalVarsScopeFirst(c, s, file, callables) ==
    LET classMap == getClassMap(c, s)
        decls == BscFile(file).variableDeclarations
    IN  flatten([i \in 1..Len(decls) |->
            LET lowerVarName == toLowerCase(decls[i].name)
            IN  IF decls[i].isFunctionType
                THEN IF containersNamed(callables, lowerVarName) # <<>>
                     THEN << diagnostic("localVarFunctionShadowsParentFunction", file, i, <<"scope">>) >>
                     ELSE IF lowerVarName \in globalCallableMap
                          THEN << diagnostic("localVarFunctionShadowsParentFunction", file, i, <<"stdlib">>) >>
                          ELSE <<>>
                ELSE IF containersNamed(callables, lowerVarName) # <<>>
                     THEN << diagnostic("localVarShadowedByScopedFunction", file, i, <<>>) >>
                     ELSE IF lowerVarName \in DOMAIN classMap
                          THEN << diagnostic("localVarSameNameAsClass", file, i,
                                             <<classMap[lowerVarName].name>>) >>
                          ELSE <<>>])

\* Scope.diagnosticDetectShadowedLocalVars
diagnosticDetectShadowedLocalVars(c, s, file, callables) ==
    LET classMap == getClassMap(c, s)
        decls == BscFile(file).variableDeclarations
    IN  flatten([i \in 1..Len(decls) |->
            LET lowerVarName == toLowerCase(decls[i].name)
            IN  IF decls[i].isFunctionType
                THEN IF lowerVarName \in globalCallableMap
                     THEN << diagnostic("localVarFunctionShadowsParentFunction", file, i, <<"stdlib">>) >>
                     ELSE IF containersNamed(callables, lowerVarName) # <<>>
                          THEN << diagnostic("localVarFunctionShadowsParentFunction", file, i, <<"scope">>) >>
                          ELSE <<>>
                ELSE IF lowerVarName \notin globalCallableMap
                     THEN IF containersNamed(callables, lowerVarName) # <<>>
                          THEN << diagnostic("localVarShadowedByScopedFunction", file, i, <<>>) >>
                          ELSE IF lowerVarName \in DOMAIN classMap
                               THEN << diagnostic("localVarSameNameAsClass", file, i,
                                                  <<classMap[lowerVarName].name>>) >>
                               ELSE <<>>
                     ELSE <<>>])

\* a variant of the check that looks for a class only when the name is no built-in
diagnosticDetectFunctionCollisionsElseIf(c, s, file) ==
    LET classMap == getClassMap(c, s)
        funcs == BscFile(file).callables
    IN  flatten([i \in 1..Len(funcs) |->
            LET lowerFuncName == toLowerCase(funcs[i].name)
            IN  IF lowerFuncName = "" THEN <<>>
                ELSE IF lowerFuncName \in globalCallableMap
                     THEN << diagnostic("scopeFunctionShadowedByBuiltInFunction", file, i, <<>>) >>
                     ELSE IF lowerFuncName \in DOMAIN classMap
                          THEN << diagnostic("functionCannotHaveSameNameAsClass", file, i,
                                             <<funcs[i].name>>) >>
                          ELSE <<>>])

\* Scope.diagnosticDetectFunctionCollisions
diagnosticDetectFunctionCollisions(c, s, file) ==
    LET classMap == getClassMap(c, s)
        funcs == BscFile(file).callables
    IN  flatten([i \in 1..Len(funcs) |->
            LET lowerFuncName == toLowerCase(funcs[i].name)
            IN  IF lowerFuncName = "" THEN <<>>
                ELSE (IF lowerFuncName \in globalCallableMap
                      THEN << diagnostic("scopeFunctionShadowedByBuiltInFunction", file, i, <<>>) >>
                      ELSE <<>>)
                     \o
                     (IF lowerFuncName \in DOMAIN classMap
                      THEN << diagnostic("functionCannotHaveSameNameAsClass", file, i,
                                         <<funcs[i].name>>) >>
                      ELSE <<>>)])

\* one of the two loops of Scope.detectVariableNamespaceCollisions

\* this.namespaceLookup[lowerName] is truthy and is no namespace: the lookup is
\* a plain object, and a name it has no entry for is looked up in Object.prototype
inheritedFromObject(lookup, name) ==
    /\ <<toLowerCase(name)>> \notin DOMAIN lookup.at
    /\ toLowerCase(name) \in ObjectPrototypeKeys

\* what reading this.namespaceLookup gives: the lookup, or a TypeError when the
\* factory runs and throws
readNamespaceLookup(c, s) ==
    [throws |-> namespaceLookupThrows(c, s), lookup |-> namespaceLookup(c, s)]

\* how many of the names one loop of detectVariableNamespaceCollisions gets
\* through: all of them, or those before the first name at which the lookup
\* cannot be read or namespace.file is undefined, where reading
\* namespace.file.pathAbsolute throws
namesChecked(read, names) ==
    LET throwing == {i \in 1..Len(names) :
                        read.throws \/ inheritedFromObject(read.lookup, names[i])}
    IN  IF throwing = {} THEN Len(names)
        ELSE (CHOOSE i \in throwing : \A k \in throwing : i <= k) - 1

namespaceCollisions(read, file, names, code) ==
    flatten([i \in 1..namesChecked(read, names) |->
        LET key == <<toLowerCase(names[i])>>
        IN  IF key \in DOMAIN read.lookup.at
            THEN << diagnostic(code, file, i,
                               <<names[i], read.lookup.at[key].file,
                                 read.lookup.at[key].nameRange>>) >>
            ELSE <<>>])

\* whether one loop of detectVariableNamespaceCollisions throws a TypeError
namespaceCollisionsThrow(read, names) == namesChecked(read, names) < Len(names)

\* whether Scope.detectVariableNamespaceCollisions throws on this file
detectVariableNamespaceCollisionsThrows(read, file) ==
    \/ namespaceCollisionsThrow(read, BscFile(file).parameters)
    \/ namespaceCollisionsThrow(read, BscFile(file).assignmentStatements)

\* Scope.detectVariableNamespaceCollisions: what it pushes, up to the throw if it throws
detectVariableNamespaceCollisions(read, file) ==
    namespaceCollisions(read, file, BscFile(file).parameters,
                        "parameterMayNotHaveSameNameAsNamespace")
    \o (IF namespaceCollisionsThrow(read, BscFile(file).parameters) THEN <<>>
        ELSE namespaceCollisions(read, file, BscFile(file).assignmentStatements,
                                 "variableMayNotHaveSameNameAsNamespace"))

\* the five checks of one file, in the order of the callback in Scope.validate
fileChecks(c, s, file, callables) ==
    diagnosticDetectCallsToUnknownFunctions(s, file, callables)
    \o diagnosticDetectFunctionCallsWithWrongParamCount(file, callables)
    \o diagnosticDetectShadowedLocalVars(c, s, file, callables)
    \o diagnosticDetectFunctionCollisions(c, s, file)
    \o detectVariableNamespaceCollisions(readNamespaceLookup(c, s), file)

\* the callback of Scope.validate, called with each of the files fs
checksOfFiles(fs, c, s, callables) ==
    flatten([i \in 1..Len(fs) |-> fileChecks(c, s, fs[i], callables)])

\* a variant of the pipeline that runs the per-file checks before the scope-wide ones
pipelineDiagnosticsFilesFirst(c, s, callables) ==
    checksOfFiles(enumerateOwnFiles(c, s), c, s, callables)
    \o diagnosticFindDuplicateFunctionDeclarations(s, callables)
    \o diagnosticValidateScriptImportPaths(c, s)
    \o validateClasses(c, s)

\* the files fs up to the first one whose last check throws
upToFirstThrow(fs, read) ==
    LET throwing == {i \in 1..Len(fs) : detectVariableNamespaceCollisionsThrows(read, fs[i])}
    IN  IF throwing = {} THEN fs
        ELSE SubSeq(fs, 1, CHOOSE i \in throwing : \A k \in throwing : i <= k)

\* the files the callback of Scope.validate is called with: the own files, or
\* those up to the first one whose last check throws
filesReached(c, s) == upToFirstThrow(enumerateOwnFiles(c, s), readNamespaceLookup(c, s))

\* whether the last check throws on one of the files fs
throwsOnOneOf(fs, read) ==
    \E i \in 1..Len(fs) : detectVariableNamespaceCollisionsThrows(read, fs[i])

\* whether the pipeline of Scope.validate ends in a TypeError
pipelineThrows(c, s) == throwsOnOneOf(enumerateOwnFiles(c, s), readNamespaceLookup(c, s))

\* what Scope.validate pushes between the two plugin events, or before it throws
pipelineDiagnostics(c, s, callables) ==
    diagnosticFindDuplicateFunctionDeclarations(s, callables)
    \o diagnosticValidateScriptImportPaths(c, s)
    \o validateClasses(c, s)
    \o checksOfFiles(filesReached(c, s), c, s, callables)

\* the slots these stages fill when they are empty
slotsReadByPipeline(c, s) ==
    LET fs == enumerateOwnFiles(c, s)
    IN  {"getAllFiles"}
        \cup (IF fs # <<>> THEN {"classMap"} ELSE {})
        \cup (IF /\ \E i \in 1..Len(fs) :
                      BscFile(fs[i]).parameters # <<>> \/ BscFile(fs[i]).assignmentStatements # <<>>
                 /\ ~namespaceLookupThrows(c, s)
              THEN {"namespaceLookup"} ELSE {})

\* the value a slot's factory computes now, reading through cache c
factoryValue(c, s, slot) ==
    CASE slot = "getAllFiles" -> computeAllFiles(s)
      [] slot = "classMap" -> computeClassMap(c, s)
      [] OTHER -> buildNamespaceLookup(c, s)

\* cache c after the slots in `slots` were read
RECURSIVE afterReads(_, _, _)
afterReads(c, s, slots) ==
    IF slots = {} THEN c
    ELSE LET slot == IF "getAllFiles" \in slots THEN "getAllFiles"
                     ELSE CHOOSE x \in slots : TRUE
         IN  afterReads(stored(c, slot, factoryValue(c, s, slot)), s, slots \ {slot})

\* util.diagnosticIsSuppressed: the host's predicate
diagnosticIsSuppressed(d) == d.code = "suppressedByComment"

\* Scope.getDiagnostics: the scope's list and the lists of its own files, unsuppressed
getDiagnostics(c, s) ==
    LET fs == enumerateOwnFiles(c, s)
        allDiagnostics == diagnostics[s] \o flatten([i \in 1..Len(fs) |-> BscFile(fs[i]).diagnostics])
    IN  SelectSeq(allDiagnostics, LAMBDA d : ~diagnosticIsSuppressed(d))

\* ---------------------------------------------------------- the machine

Events == {"beforeScopeValidate", "afterScopeValidate"}

\* what the installed plugin's handler of `event` adds through Scope.addDiagnostics
pluginDiagnostics(event, s) ==
    IF event \in plugin THEN << diagnostic("plugin", "", 0, <<event, s>>) >> ELSE <<>>

\* what a caller outside validate() adds through Scope.addDiagnostics
hostDiagnostic == diagnostic("host", "", 0, <<>>)

Top == stack[Len(stack)]

\* control is outside the Scope's code: nothing is running, or the innermost
\* validate() is waiting for the handlers of an event it emitted
Outside == IF stack = <<>> THEN TRUE ELSE Top.pc \in {"before", "after"}

\* the host or a handler calls one more operation
NoRun == [stage |-> "none", diagnostics |-> <<>>]

\* what the call of operation `name` on scope s makes of the sequence validate();
\* invalidate(); validate() on each scope: the host's invalidate() right after a
\* run and its validate() right after that invalidate() continue the sequence on
\* their scope, every other call ends it
afterCall(name, s) ==
    [x \in Scopes |->
        IF stack = <<>> /\ x = s /\ name = "invalidate" /\ lastRun[x].stage = "returned"
        THEN [lastRun[x] EXCEPT !.stage = "invalidated"]
        ELSE IF stack = <<>> /\ x = s /\ name = "validate" /\ lastRun[x].stage = "invalidated"
        THEN [lastRun[x] EXCEPT !.stage = "again"]
        ELSE NoRun]

\* the host or a handler calls operation `name` on scope s
Called(name, s) ==
    /\ Outside
    /\ ops < MaxOps
    /\ ops' = ops + 1
    /\ handlerActed' = (handlerActed \/ stack # <<>>)
    /\ noisy' = noisy \cup (1..Len(stack))
    /\ lastRun' = afterCall(name, s)

whoCalls == IF stack = <<>> THEN "host" ELSE "plugin"

\* the scopes whose validate() is running
validating == {stack[i].scope : i \in 1..Len(stack)}

\* how the argument of validate(force) is recorded
forced(force) == IF force THEN "force" ELSE "no force"

op(name, s, arg, value) == [op |-> name, scope |-> s, arg |-> arg, value |-> value]

noCache == [s \in {} |-> {}]

Init ==
    /\ files = PkgPaths \ Loadable
    /\ dependencies = [k \in Keys \cup ComponentKeys |->
                          IF k \in PkgPaths \ Loadable THEN BscFile(k).imports
                          ELSE IF k = dependencyGraphKey(GlobalScope) THEN <<FG>>
                          ELSE <<>>]
    /\ subscribed = Scopes
    /\ isValidated = [s \in Scopes |-> FALSE]
    /\ cache = [s \in Scopes |-> noCache]
    /\ diagnostics = [s \in Scopes |-> <<>>]
    /\ stack = <<>>
    /\ plugin = Events
    /\ lastOp = op("constructor", "none", "", "")
    /\ ops = 0
    /\ handlerActed = FALSE
    /\ noisy = {}
    /\ lastRun = [s \in Scopes |-> NoRun]

\* the running calls, with a note in those of the scopes S that the scope was
\* invalidated while the call ran
noted(stk, S) ==
    [i \in 1..Len(stk) |->
        IF stk[i].scope \in S THEN [stk[i] EXCEPT !.invalidated = TRUE] ELSE stk[i]]

\* a variant of invalidate that resets the flag and keeps the cached views
invalidateKeepsCache(S) ==
    /\ isValidated' = [s \in Scopes |-> IF s \in S THEN FALSE ELSE isValidated[s]]
    /\ cache' = cache
    /\ stack' = noted(stack, S)

\* a variant of invalidate that clears the cache of every scope
invalidateEveryCache(S) ==
    /\ isValidated' = [s \in Scopes |-> IF s \in S THEN FALSE ELSE isValidated[s]]
    /\ cache' = [s \in Scopes |-> noCache]
    /\ stack' = noted(stack, S)

\* Scope.invalidate, for every scope of the set S at once
invalidate(S) ==
    /\ isValidated' = [s \in Scopes |-> IF s \in S THEN FALSE ELSE isValidated[s]]
    /\ cache' = [s \in Scopes |-> IF s \in S THEN noCache ELSE cache[s]]
    /\ stack' = noted(stack, S)

\* a variant of onDependenciesChanged that ignores the notification
onDependenciesChangedIgnored(S) == UNCHANGED <<isValidated, cache, stack>>

\* Scope.onDependenciesChanged, for the scopes S whose subscription fired
onDependenciesChanged(S) == invalidate(S)

\* DependencyGraph: the subscribed scopes that hear of a change of node `key`,
\* in the graph before the change or in the graph after it
notified(before, after, key) ==
    {s \in subscribed :
        dependencyGraphKey(s) \in dependentsOf(before, key) \cup dependentsOf(after, key)}

\* the program attaches file f to the key of scope s
AddDependency(s, f) ==
    /\ Called("addDependency", s)
    /\ f \in Attachable(s)
    /\ f \notin Range(dependencies[dependencyGraphKey(s)])
    /\ dependencies' = [dependencies EXCEPT ![dependencyGraphKey(s)] = Append(@, f)]
    /\ onDependenciesChanged(notified(dependencies, dependencies', dependencyGraphKey(s)))
    /\ lastOp' = op("addDependency", s, f, "")
    /\ UNCHANGED <<files, subscribed, diagnostics, plugin>>

\* the program detaches file f from the key of scope s
RemoveDependency(s, f) ==
    /\ Called("removeDependency", s)
    /\ f \in Attachable(s)
    /\ f \in Range(dependencies[dependencyGraphKey(s)])
    /\ dependencies' = [dependencies EXCEPT ![dependencyGraphKey(s)] =
                            SelectSeq(@, LAMBDA x : x # f)]
    /\ onDependenciesChanged(notified(dependencies, dependencies', dependencyGraphKey(s)))
    /\ lastOp' = op("removeDependency", s, f, "")
    /\ UNCHANGED <<files, subscribed, diagnostics, plugin>>

\* the program loads file f: its node gets the file's imports as dependencies
LoadFile(f) ==
    /\ Called("loadFile", "none")
    /\ f \notin files
    /\ files' = files \cup {f}
    /\ dependencies' = [dependencies EXCEPT ![f] = BscFile(f).imports]
    /\ onDependenciesChanged(notified(dependencies, dependencies', f))
    /\ lastOp' = op("loadFile", "none", f, "")
    /\ UNCHANGED <<subscribed, diagnostics, plugin>>

\* the program removes file f
UnloadFile(f) ==
    /\ Called("unloadFile", "none")
    /\ f \in files
    /\ files' = files \ {f}
    /\ dependencies' = [dependencies EXCEPT ![f] = <<>>]
    /\ onDependenciesChanged(notified(dependencies, dependencies', f))
    /\ lastOp' = op("unloadFile", "none", f, "")
    /\ UNCHANGED <<subscribed, diagnostics, plugin>>

\* a variant of the direct call that also empties the diagnostics list
InvalidateClearsDiagnostics(s) ==
    /\ Called("invalidate", s)
    /\ invalidate({s})
    /\ diagnostics' = [diagnostics EXCEPT ![s] = <<>>]
    /\ lastOp' = op("invalidate", s, "", "")
    /\ UNCHANGED <<dependencies, files, subscribed, plugin>>

\* Scope.invalidate, called directly
Invalidate(s) ==
    /\ Called("invalidate", s)
    /\ invalidate({s})
    /\ lastOp' = op("invalidate", s, "", "")
    /\ UNCHANGED <<dependencies, files, subscribed, diagnostics, plugin>>

\* a variant of dispose that also invalidates the scope
DisposeInvalidates(s) ==
    /\ Called("dispose", s)
    /\ s \in subscribed
    /\ subscribed' = subscribed \ {s}
    /\ invalidate({s})
    /\ lastOp' = op("dispose", s, "", "")
    /\ UNCHANGED <<dependencies, files, diagnostics, plugin>>

DisposeKeepsSubscription(s) ==
    /\ Called("dispose", s)
    /\ s \in subscribed
    /\ subscribed' = subscribed
    /\ lastOp' = op("dispose", s, "", "")
    /\ UNCHANGED <<stack, dependencies, files, isValidated, cache, diagnostics, plugin>>

\* Scope.dispose
Dispose(s) ==
    /\ Called("dispose", s)
    /\ s \in subscribed
    /\ subscribed' = subscribed \ {s}
    /\ lastOp' = op("dispose", s, "", "")
    /\ UNCHANGED <<stack, dependencies, files, isValidated, cache, diagnostics, plugin>>

\* the running calls, with the diagnostics ds noted in every call of scope s that
\* has cleared the list and not yet returned
recordPush(stk, s, ds) ==
    [i \in 1..Len(stk) |->
        IF stk[i].scope = s /\ stk[i].pc \in {"before", "after"}
        THEN [stk[i] EXCEPT !.pushed = @ \o ds]
        ELSE stk[i]]

\* Scope.addDiagnostics, called by the host or by a handler
AddDiagnostics(s) ==
    /\ Called("addDiagnostics", s)
    /\ diagnostics' = [diagnostics EXCEPT ![s] = @ \o <<hostDiagnostic>>]
    /\ stack' = recordPush(stack, s, <<hostDiagnostic>>)
    /\ lastOp' = op("addDiagnostics", s, "", "")
    /\ UNCHANGED <<dependencies, files, subscribed, isValidated, cache, plugin>>

\* the slots a read of `slot` fills: a factory reads the file list through the cache
slotsFilledByRead(c, slot) ==
    IF slot \in DOMAIN c THEN {} ELSE {slot, "getAllFiles"}

\* what a read of `slot` returns
readValue(c, s, slot) == getOrAdd(c, slot, factoryValue(c, s, slot))

\* one of the cached getters: getAllFiles, getClass (the class map), namespaceLookup
Read(s, slot) ==
    /\ Called("read", s)
    /\ IF slot = "namespaceLookup" /\ namespaceLookupThrows(cache[s], s)
       THEN /\ cache' = [cache EXCEPT ![s] = afterReads(@, s, {"getAllFiles"})]
            /\ lastOp' = op("readThrew", s, slot, "TypeError")
       ELSE /\ cache' = [cache EXCEPT ![s] = afterReads(@, s, slotsFilledByRead(@, slot))]
            /\ lastOp' = op("read", s, slot, readValue(cache[s], s, slot))
    /\ UNCHANGED <<stack, dependencies, files, subscribed, isValidated, diagnostics, plugin>>

\* Scope.getDiagnostics
GetDiagnostics(s) ==
    /\ Called("getDiagnostics", s)
    /\ cache' = [cache EXCEPT ![s] = afterReads(@, s, {"getAllFiles"})]
    /\ lastOp' = op("getDiagnostics", s, "", getDiagnostics(cache[s], s))
    /\ UNCHANGED <<stack, dependencies, files, subscribed, isValidated, diagnostics, plugin>>

\* a variant of the guard that also returns when the scope's validate() is running
alreadyValidatedOrRunning(s, force) == (isValidated[s] = TRUE /\ ~force) \/ s \in validating

\* a variant of the guard that never returns early
neverValidated(s, force) == FALSE

\* a variant of the guard that returns for a valid scope whatever force is
alreadyValidatedDespiteForce(s, force) == isValidated[s] = TRUE

\* the first lines of Scope.validate: "if this scope is already validated, no need to revalidate"
alreadyValidated(s, force) == isValidated[s] = TRUE /\ ~force

\* a running call of validate(force): its arguments and position, the callables it
\* collected, and what is known of the call: who called it, whether the scope was
\* invalidated meanwhile, the stages it ran and the diagnostics it pushed
frame(s, force, by) ==
    [scope |-> s, force |-> force, by |-> by, pc |-> "parent", invalidated |-> FALSE,
     callables |-> <<>>, trace |-> <<>>, pushed |-> <<>>]

\* a call of Scope.validate(force): it returns at once, or it enters the pipeline
enter(s, force) ==
    /\ IF alreadyValidated(s, force)
       THEN /\ lastOp' = op("validate", s, forced(force), "already validated")
            /\ stack' = stack
       ELSE /\ lastOp' = op("validate", s, forced(force), "entered")
            /\ stack' = Append(stack, frame(s, force, whoCalls))
    /\ UNCHANGED <<dependencies, files, subscribed, isValidated, cache, diagnostics, plugin>>

\* a validate() on scope s would run inside a validate() of s or of its parent,
\* which it validates first
reenters(s) ==
    s \in validating \/ (hasParentScope(s) /\ getParentScope(s) \in validating)

\* validate(force) called by the host, or by a handler that does not re-enter a
\* running validate()
Validate(s, force) ==
    /\ Called("validate", s)
    /\ ~reenters(s)
    /\ enter(s, force)

\* validate(force) called by a handler that re-enters a running validate()
Reenter(s, force) ==
    /\ Called("validate", s)
    /\ reenters(s)
    /\ enter(s, force)

\* a variant of the parent check that never validates the parent
neverNeedsParent(s) == FALSE

\* "validate our parent before we validate ourself"
needsParent(s) == hasParentScope(s) /\ isValidated[getParentScope(s)] = FALSE

ValidateParent ==
    /\ stack # <<>>
    /\ Top.pc = "parent"
    /\ stack' = IF needsParent(Top.scope)
                THEN [stack EXCEPT ![Len(stack)].pc = "begin"]
                     \o << frame(getParentScope(Top.scope), Top.force, "parent") >>
                ELSE [stack EXCEPT ![Len(stack)].pc = "begin"]
    /\ lastOp' = op("parentChecked", Top.scope, forced(Top.force), needsParent(Top.scope))
    /\ UNCHANGED <<ops, handlerActed, noisy, lastRun, dependencies, files, subscribed, isValidated, cache, diagnostics, plugin>>

\* a variant of the clearing that keeps the list
kept(list) == list

\* the list as "this.diagnostics = []" leaves it
cleared(list) == <<>>

\* Scope.validate from clearing the list to emitting beforeScopeValidate
ValidateBegin ==
    /\ stack # <<>>
    /\ Top.pc = "begin"
    /\ LET s == Top.scope
           added == pluginDiagnostics("beforeScopeValidate", s)
           readers == IF hasParentScope(s) THEN {s, getParentScope(s)} ELSE {s}
       IN  /\ diagnostics' = [diagnostics EXCEPT ![s] = cleared(@) \o added]
           /\ cache' = [x \in Scopes |->
                          IF x \in readers THEN afterReads(cache[x], x, {"getAllFiles"})
                          ELSE cache[x]]
           /\ stack' = [stack EXCEPT ![Len(stack)] =
                          [@ EXCEPT !.pc = "before",
                                    !.callables = sortCallables(getAllCallables(cache, s)),
                                    !.trace = <<"clear", "callables", "beforeScopeValidate">>,
                                    !.pushed = added]]
           /\ lastOp' = op("beforeScopeValidate", s, forced(Top.force), "")
    /\ UNCHANGED <<ops, handlerActed, noisy, lastRun, dependencies, files, subscribed, isValidated, plugin>>

\* the names of the stages between the two events, in the order they run
stagesOf(fs) ==
    <<"duplicates", "imports", "classes">>
    \o flatten([i \in 1..Len(fs) |->
          <<"unknownCalls:" \o fs[i], "paramCount:" \o fs[i], "shadowedVars:" \o fs[i],
            "collisions:" \o fs[i], "namespaces:" \o fs[i]>>])

\* the calls left running when the innermost validate() throws: the error
\* leaves that call and every call that called it directly; when a handler made
\* the call, the plugin system either stops the error there (caught) or lets it
\* leave the validate() that emitted the event too, and so on outwards
RECURSIVE unwound(_, _)
unwound(stk, caught) ==
    IF stk = <<>> THEN <<>>
    ELSE LET rest == SubSeq(stk, 1, Len(stk) - 1)
         IN  IF stk[Len(stk)].by = "parent" THEN unwound(rest, caught)
             ELSE IF caught THEN rest
             ELSE unwound(rest, caught)

\* Scope.validate from the duplicate check on, when a check throws: what was
\* pushed stays in the list, afterScopeValidate is not emitted, and isValidated
\* is not set
ValidateThrows(caught, found, reached) ==
    LET s == Top.scope
        left == unwound(stack, caught)
    IN  /\ diagnostics' = [diagnostics EXCEPT ![s] = @ \o found]
        /\ cache' = [cache EXCEPT ![s] = afterReads(@, s, slotsReadByPipeline(@, s))]
        /\ stack' = SubSeq(recordPush(stack, s, found), 1, Len(left))
        /\ lastOp' = op("threw", s, forced(Top.force),
                        [by |-> Top.by, error |-> "TypeError", pushed |-> Top.pushed \o found,
                         trace |-> Top.trace \o stagesOf(reached)])
        /\ noisy' = noisy \cap (1..Len(left))
        /\ lastRun' = [x \in Scopes |->
                          IF \E i \in (Len(left) + 1)..Len(stack) : stack[i].scope = x
                          THEN NoRun ELSE lastRun[x]]
        /\ UNCHANGED <<ops, handlerActed, dependencies, files, subscribed, isValidated, plugin>>

\* Scope.validate from the duplicate check to emitting afterScopeValidate
ValidateReturns(found) ==
    /\ LET s == Top.scope
           added == found \o pluginDiagnostics("afterScopeValidate", s)
       IN  /\ diagnostics' = [diagnostics EXCEPT ![s] = @ \o added]
           /\ cache' = [cache EXCEPT ![s] = afterReads(@, s, slotsReadByPipeline(@, s))]
           /\ stack' = [recordPush(stack, s, added) EXCEPT ![Len(stack)] =
                          [@ EXCEPT !.pc = "after",
                                    !.trace = @ \o stagesOf(enumerateOwnFiles(cache[s], s))
                                                \o <<"afterScopeValidate">>]]
           /\ lastOp' = op("afterScopeValidate", s, forced(Top.force), "")
    /\ UNCHANGED <<ops, handlerActed, noisy, lastRun, dependencies, files, subscribed, isValidated, plugin>>

\* the checks end in a TypeError or run through
checksEnd(throws, found, reached) ==
    IF throws THEN \E caught \in BOOLEAN : ValidateThrows(caught, found, reached)
    ELSE ValidateReturns(found)

ValidateChecks ==
    /\ stack # <<>>
    /\ Top.pc = "before"
    /\ checksEnd(pipelineThrows(cache[Top.scope], Top.scope),
                 pipelineDiagnostics(cache[Top.scope], Top.scope, Top.callables),
                 filesReached(cache[Top.scope], Top.scope))

\* the last line of Scope.validate, and its return
ValidateEnd ==
    /\ stack # <<>>
    /\ Top.pc = "after"
    /\ isValidated' = [isValidated EXCEPT ![Top.scope] = TRUE]
    /\ stack' = SubSeq(stack, 1, Len(stack) - 1)
    /\ lastOp' = op("validated", Top.scope, forced(Top.force),
                    [by |-> Top.by, trace |-> Append(Top.trace, "isValidated"),
                     pushed |-> Top.pushed, invalidated |-> Top.invalidated,
                     quiet |-> Len(stack) \notin noisy, previous |-> lastRun[Top.scope]])
    /\ noisy' = noisy \ {Len(stack)}
    /\ lastRun' = [lastRun EXCEPT ![Top.scope] =
                     IF Top.by = "host" /\ Len(stack) = 1 /\ Len(stack) \notin noisy
                     THEN [stage |-> "returned", diagnostics |-> diagnostics[Top.scope]]
                     ELSE NoRun]
    /\ UNCHANGED <<ops, handlerActed, dependencies, files, subscribed, cache, diagnostics, plugin>>

\* Scope.getOwnFiles, called by the host or a handler
GetOwnFiles(s) ==
    /\ Called("getOwnFiles", s)
    /\ cache' = [cache EXCEPT ![s] = afterReads(@, s, {"getAllFiles"})]
    /\ lastOp' = op("getOwnFiles", s, "", getOwnFiles(cache[s], s))
    /\ UNCHANGED <<stack, dependencies, files, subscribed, isValidated, diagnostics, plugin>>

\* the caches after s and its ancestors each read their file list
withFileLists(s) ==
    [x \in Scopes |->
        IF x = s \/ (hasParentScope(s) /\ x = getParentScope(s))
        THEN afterReads(cache[x], x, {"getAllFiles"}) ELSE cache[x]]

\* the names the host asks for
QueryNames == {"HELPER", "FOO", "main", "nothing"}

\* Scope.getCallableByName, called by the host or a handler
GetCallableByName(s, name) ==
    /\ Called("getCallableByName", s)
    /\ cache' = withFileLists(s)
    /\ lastOp' = op("getCallableByName", s, name, getCallableByName(cache, s, name))
    /\ UNCHANGED <<stack, dependencies, files, subscribed, isValidated, diagnostics, plugin>>

\* Scope.getOwnCallables and Scope.getAllCallables, called by the host or a handler
GetOwnCallables(s) ==
    /\ Called("getOwnCallables", s)
    /\ cache' = [cache EXCEPT ![s] = afterReads(@, s, {"getAllFiles"})]
    /\ lastOp' = op("getOwnCallables", s, "", getOwnCallables(cache[s], s))
    /\ UNCHANGED <<stack, dependencies, files, subscribed, isValidated, diagnostics, plugin>>

GetAllCallables(s) ==
    /\ Called("getAllCallables", s)
    /\ cache' = withFileLists(s)
    /\ lastOp' = op("getAllCallables", s, "", getAllCallables(cache, s))
    /\ UNCHANGED <<stack, dependencies, files, subscribed, isValidated, diagnostics, plugin>>

\* the scopes a component scope inherits from besides the global scope, and the
\* containers they surface: the callables of one file each, or none
AncestorScopes == {"parent", "grandparent"}
Inheritable == {FB, FC}

\* the files the parent and the grandparent surface: any two of these, or the
\* two files of helpers, the grandparent's later in path order
InheritedPairs ==
    ((Inheritable \cup {"none"}) \X (Inheritable \cup {"none"})) \cup {<<FG, FH>>}

surfaced(a, f) == IF f = "none" THEN <<>> ELSE containersOf(f, a)

\* the callables the check was given and the diagnostics it pushes
checked(s, callables) ==
    [callables |-> callables,
     diagnostics |-> diagnosticFindDuplicateFunctionDeclarations(s, callables)]

\* the duplicate check of Scope.validate, applied to the sorted callables of
\* scope s and of ancestors that surface the callables of files f and g
FindDuplicateFunctionDeclarations(s, f, g) ==
    /\ Called("findDuplicates", s)
    /\ hasParentScope(s)
    /\ cache' = withFileLists(s)
    /\ LET own == getOwnCallables(cache[s], s)
           inherited == surfaced("parent", f) \o surfaced("grandparent", g)
           global == getOwnCallables(cache[getParentScope(s)], getParentScope(s))
       IN  lastOp' = op("findDuplicates", s, "",
                        checked(s, sortCallables(own \o inherited \o global)))
    /\ UNCHANGED <<stack, dependencies, files, subscribed, isValidated, diagnostics, plugin>>

\* the namespace names the host asks for
NamespaceNames == {"Net", "net.http", "Http", "Ty"}

\* Scope.isKnownNamespace, called by the host or a handler
IsKnownNamespace(s, name) ==
    /\ Called("isKnownNamespace", s)
    /\ cache' = [cache EXCEPT ![s] = afterReads(@, s, {"getAllFiles"})]
    /\ lastOp' = op("isKnownNamespace", s, name, isKnownNamespace(cache[s], s, name))
    /\ UNCHANGED <<stack, dependencies, files, subscribed, isValidated, diagnostics, plugin>>

Next ==
    \/ \E s \in Scopes, f \in PkgPaths : AddDependency(s, f)
    \/ \E s \in Scopes, f \in PkgPaths : RemoveDependency(s, f)
    \/ \E f \in Loadable : LoadFile(f)
    \/ \E f \in Loadable : UnloadFile(f)
    \/ \E s \in Scopes : Invalidate(s)
    \/ \E s \in Scopes : Dispose(s)
    \/ \E s \in Scopes : AddDiagnostics(s)
    \/ \E s \in Scopes, slot \in Slots : Read(s, slot)
    \/ \E s \in Scopes : GetDiagnostics(s)
    \/ \E s \in Scopes, force \in BOOLEAN : Validate(s, force)
    \/ ValidateParent
    \/ ValidateBegin
    \/ ValidateChecks
    \/ ValidateEnd

Spec == Init /\ [][Next]_vars

\* the same machine with handlers that break the plugin contract and call
\* validate() on a scope whose validate() is running
NextReentrant == Next \/ \E s \in Scopes, force \in BOOLEAN : Reenter(s, force)

SpecReentrant == Init /\ [][NextReentrant]_vars

\* the dependencies a program may give the source scope's key when it is created
Attached == {FA, FB, FC, FT, FP} \cup ComponentKeys

DependencyLists ==
    {q \in UNION {[1..n -> Attached] : n \in 0..MaxDeps} :
        \A i, j \in 1..Len(q) : q[i] = q[j] => i = j}

\* the program created with any of these file lists, with source/B.brs loaded or
\* not, and with one or two files in the global scope
InitQueries ==
    /\ files \in {PkgPaths, PkgPaths \ Loadable}
    /\ \E own \in DependencyLists, global \in {<<FG>>, <<FG, FH>>} :
          dependencies = [k \in Keys \cup ComponentKeys |->
                             IF k \in files THEN BscFile(k).imports
                             ELSE IF k = dependencyGraphKey(GlobalScope) THEN global
                             ELSE IF k = dependencyGraphKey(SourceScope) THEN own
                             ELSE <<>>]
    /\ subscribed = Scopes
    /\ isValidated = [s \in Scopes |-> FALSE]
    /\ cache = [s \in Scopes |-> noCache]
    /\ diagnostics = [s \in Scopes |-> <<>>]
    /\ stack = <<>>
    /\ plugin = Events
    /\ lastOp = op("constructor", "none", "", "")
    /\ ops = 0
    /\ handlerActed = FALSE
    /\ noisy = {}
    /\ lastRun = [s \in Scopes |-> NoRun]

\* the scope's queries and validate(), on a graph that stays as it was created
NextQueries ==
    \/ /\ ops < MaxQueries
       /\ \/ \E s \in Scopes : GetOwnFiles(s)
          \/ \E s \in Scopes, name \in QueryNames : GetCallableByName(s, name)
          \/ \E s \in Scopes, name \in NamespaceNames : IsKnownNamespace(s, name)
          \/ \E s \in Scopes : GetOwnCallables(s)
          \/ \E s \in Scopes : GetAllCallables(s)
          \/ \E s \in Scopes, inherited \in InheritedPairs :
                FindDuplicateFunctionDeclarations(s, inherited[1], inherited[2])
          \/ \E s \in Scopes, slot \in Slots : Read(s, slot)
          \/ \E s \in Scopes : GetDiagnostics(s)
          \/ \E s \in Scopes, force \in BOOLEAN : Validate(s, force)
    \/ ValidateParent
    \/ ValidateBegin
    \/ ValidateChecks
    \/ ValidateEnd

SpecQueries == InitQueries /\ [][NextQueries]_vars

\* ---------------------------------------------------------- properties

\* what the factory of `slot` computes for scope s from the dependency graph as it is
fresh(s, slot) == factoryValue(noCache, s, slot)

GraphOps == {"addDependency", "removeDependency", "loadFile", "unloadFile"}

\* how often `name` occurs in the stages tr
occurrences(tr, name) == Cardinality({i \in 1..Len(tr) : tr[i] = name})

\* the place of `name` in the stages tr, 0 when it is not there
position(tr, name) ==
    IF \E i \in 1..Len(tr) : tr[i] = name THEN CHOOSE i \in 1..Len(tr) : tr[i] = name ELSE 0

\* tr is one whole run of the pipeline: clear, callables, beforeScopeValidate, the
\* three scope-wide checks, the five checks of each file, afterScopeValidate, the flag
wholeRun(tr) ==
    LET n == Len(tr)
    IN  /\ n >= 8
        /\ (n - 8) % 5 = 0
        /\ SubSeq(tr, 1, 6) = <<"clear", "callables", "beforeScopeValidate",
                                "duplicates", "imports", "classes">>
        /\ \A j \in 0..((n - 8) \div 5 - 1) :
              \E f \in PkgPaths :
                 SubSeq(tr, 7 + 5 * j, 11 + 5 * j) =
                    <<"unknownCalls:" \o f, "paramCount:" \o f, "shadowedVars:" \o f,
                      "collisions:" \o f, "namespaces:" \o f>>
        /\ tr[n - 1] = "afterScopeValidate"
        /\ tr[n] = "isValidated"
        /\ \A e \in Events : occurrences(tr, e) = 1

\* the dependency set of scope s
dependencySet(s) == getAllDependencies(dependencies, dependencyGraphKey(s))

C4_ValidateOnValidScopeIsNoOp ==
    [][(lastOp'.op = "validate" /\ lastOp'.arg = "no force" /\ isValidated[lastOp'.scope]) =>
          /\ lastOp'.value = "already validated"
          /\ UNCHANGED <<isValidated, cache, diagnostics, stack, dependencies, files, subscribed>>]_vars

\* validate(false) has returned at once on a valid scope that holds diagnostics
C4_Witness ==
    /\ lastOp.op = "validate"
    /\ lastOp.arg = "no force"
    /\ lastOp.value = "already validated"
    /\ isValidated[lastOp.scope]
    /\ diagnostics[lastOp.scope] # <<>>

\* C5 as stated: when a validate() returns, the scope and its parent are valid
C5_AncestorsValidAtReturn ==
    lastOp.op = "validated" =>
        /\ isValidated[lastOp.scope]
        /\ hasParentScope(lastOp.scope) => isValidated[getParentScope(lastOp.scope)]

\* C5: a scope clears its list and emits beforeScopeValidate only when its parent
\* is valid; a parent validated on behalf of a child gets the child's force and
\* runs its whole pipeline; when a validate() returns its own scope is valid
C5_ParentValidatedFirst ==
    /\ (stack # <<>> /\ Top.pc = "begin" /\ hasParentScope(Top.scope)) =>
           isValidated[getParentScope(Top.scope)]
    /\ \A i \in 1..Len(stack) :
           stack[i].by = "parent" =>
               /\ i > 1
               /\ stack[i - 1].pc = "begin"
               /\ stack[i].scope = getParentScope(stack[i - 1].scope)
               /\ stack[i].force = stack[i - 1].force
    /\ lastOp.op = "validated" =>
           /\ isValidated[lastOp.scope]
           /\ lastOp.value.by = "parent" => wholeRun(lastOp.value.trace)

\* the parent's validate(), called by the child's, has returned and the child is
\* about to clear its list
C5_Witness ==
    /\ Len(stack) = 1
    /\ Top.pc = "begin"
    /\ Top.scope = SourceScope
    /\ lastOp.op = "validated"
    /\ lastOp.scope = GlobalScope
    /\ lastOp.value.by = "parent"
    /\ isValidated[GlobalScope]

stageOf(d) ==
    CASE d.code = "plugin" -> d.arg[1]
      [] d.code \in {"overridesAncestorFunction", "duplicateFunctionImplementation"} -> "duplicates"
      [] d.code \in {"scriptImportCaseMismatch", "referencedFileDoesNotExist"} -> "imports"
      [] d.code = "duplicateClassDeclaration" -> "classes"
      [] d.code = "callToUnknownFunction" -> "unknownCalls:" \o d.file
      [] d.code = "mismatchArgumentCount" -> "paramCount:" \o d.file
      [] d.code \in {"localVarFunctionShadowsParentFunction", "localVarShadowedByScopedFunction",
                     "localVarSameNameAsClass"} -> "shadowedVars:" \o d.file
      [] d.code \in {"scopeFunctionShadowedByBuiltInFunction",
                     "functionCannotHaveSameNameAsClass"} -> "collisions:" \o d.file
      [] OTHER -> "namespaces:" \o d.file

\* the diagnostics of list ds that the pipeline and the installed plugin pushed
ownDiagnostics(ds) == SelectSeq(ds, LAMBDA d : d.code # "host")

\* C7: every run of the pipeline goes through its stages in the one fixed order,
\* with the five checks of each own file that has no typedef in the order of the
\* own files, emits each of the two events exactly once, and the diagnostics in
\* the list follow the order of the stages that pushed them
C7_StagesInFixedOrder ==
    lastOp.op = "validated" =>
        LET tr == lastOp.value.trace
            ds == ownDiagnostics(diagnostics[lastOp.scope])
            fs == enumerateOwnFiles(cache[lastOp.scope], lastOp.scope)
        IN  /\ wholeRun(tr)
            /\ lastOp.value.quiet =>
                  /\ Len(tr) = 8 + 5 * Len(fs)
                  /\ \A k \in 1..Len(fs) : tr[2 + 5 * k] = "unknownCalls:" \o fs[k]
            /\ \A i \in 1..Len(ds) : position(tr, stageOf(ds[i])) > 0
            /\ \A i, j \in 1..Len(ds) :
                  i < j => position(tr, stageOf(ds[i])) <= position(tr, stageOf(ds[j]))

\* a run has returned whose list holds diagnostics of a scope-wide check and of a
\* per-file check, between those of the two events
C7_Witness ==
    /\ lastOp.op = "validated"
    /\ LET ds == diagnostics[lastOp.scope]
       IN  /\ \E i \in 1..Len(ds) : stageOf(ds[i]) = "imports"
           /\ \E i \in 1..Len(ds) : stageOf(ds[i]) = "unknownCalls:" \o FA
           /\ stageOf(ds[1]) = "beforeScopeValidate"
           /\ stageOf(ds[Len(ds)]) = "afterScopeValidate"

\* C8: invalidate() empties the scope's cache and resets its flag, and the next
\* read of a cached view returns what the factory computes from the dependency
\* graph as it is, whatever was cached before
C8_ReadAfterInvalidateRecomputes ==
    [][/\ \A s \in Scopes :
             (lastOp'.op = "invalidate" /\ lastOp'.scope = s) =>
                 (cache'[s] = noCache /\ ~isValidated'[s])
       /\ (lastOp'.op = "read"
             /\ (cache[lastOp'.scope] = noCache \/ lastOp'.scope \in subscribed)) =>
                 lastOp'.value = fresh(lastOp'.scope, lastOp'.arg)]_vars

\* a view of a scope that was validated and then invalidated has been read from
\* its empty cache
C8_Witness ==
    /\ lastOp.op = "read"
    /\ lastOp.arg = "getAllFiles"
    /\ lastOp.value # <<>>
    /\ ~isValidated[lastOp.scope]
    /\ diagnostics[lastOp.scope] # <<>>
    /\ DOMAIN cache[lastOp.scope] = {"getAllFiles"}

\* C9: validate(); invalidate(); validate() on a live scope, with nothing else
\* called in between or by a handler, leaves the scope valid with the list the
\* first validate() left
C9_RoundTripSameDiagnostics ==
    (/\ lastOp.op = "validated"
     /\ lastOp.value.previous.stage = "again"
     /\ lastOp.value.quiet
     /\ lastOp.scope \in subscribed) =>
        /\ diagnostics[lastOp.scope] = lastOp.value.previous.diagnostics
        /\ isValidated[lastOp.scope]

\* the second validate() of the three calls has returned on a scope with files,
\* and the list holds more than the two diagnostics of the plugin
C9_Witness ==
    /\ lastOp.op = "validated"
    /\ lastOp.value.previous.stage = "again"
    /\ lastOp.value.quiet
    /\ lastOp.scope \in subscribed
    /\ Len(lastOp.value.previous.diagnostics) > 2

\* what the pipeline and the plugin push for scope s, computed from the dependency
\* graph as it is and from no cached view
expectedDiagnostics(s) ==
    pluginDiagnostics("beforeScopeValidate", s)
    \o pipelineDiagnostics(noCache, s, sortCallables(getAllCallables([x \in Scopes |-> noCache], s)))
    \o pluginDiagnostics("afterScopeValidate", s)

C11_DisposeReleasesSubscription ==
    [][ /\ (lastOp'.op = "dispose" /\ ops' # ops) => lastOp'.scope \notin subscribed'
        /\ \A s \in Scopes \ subscribed :
              /\ s \notin subscribed'
              /\ (dependencies' # dependencies \/ files' # files) =>
                    /\ isValidated'[s] = isValidated[s]
                    /\ cache'[s] = cache[s]
                    /\ \A i \in 1..Len(stack) :
                          stack[i].scope = s =>
                              stack'[i].invalidated = stack[i].invalidated ]_vars

\* a disposed scope that is still valid, with its caches filled, after one of
\* its own dependencies was detached
C11_Witness ==
    /\ lastOp.op = "removeDependency"
    /\ lastOp.scope \notin subscribed
    /\ isValidated[lastOp.scope]
    /\ cache[lastOp.scope] # noCache

\* the scopes met by following parent links from s, at most n links
RECURSIVE parentChain(_, _)
parentChain(s, n) ==
    IF n = 0 \/ getParentScope(s) = "none" THEN <<>>
    ELSE <<getParentScope(s)>> \o parentChain(getParentScope(s), n - 1)

\* C12: the global scope has no parent and every other scope's parent is the
\* global scope, so the parent chain of every scope is finite, repeats no
\* scope, and ends at the global scope; a call of validate() that follows the
\* parent link runs the global scope on behalf of a scope that is not global.
C12_ParentChainEndsAtGlobal ==
    /\ getParentScope(GlobalScope) = "none"
    /\ \A s \in Scopes \ {GlobalScope} : getParentScope(s) = GlobalScope
    /\ \A s \in Scopes :
          LET chain == parentChain(s, Cardinality(Scopes) + 1)
          IN  /\ Len(chain) <= Cardinality(Scopes)
              /\ s \notin Range(chain)
              /\ \A i, j \in 1..Len(chain) : chain[i] = chain[j] => i = j
              /\ s # GlobalScope => chain[Len(chain)] = GlobalScope
    /\ \A i \in 1..Len(stack) :
          stack[i].by = "parent" =>
              /\ i > 1
              /\ stack[i].scope = GlobalScope
              /\ stack[i - 1].scope # GlobalScope

\* validate() of the source scope has followed the parent link and is running
\* the global scope's pipeline
C12_Witness ==
    /\ Len(stack) = 2
    /\ stack[1].scope = SourceScope
    /\ stack[2].by = "parent"
    /\ stack[2].scope = getParentScope(SourceScope)
    /\ stack[2].pc = "before"

\* the loaded files that are direct dependencies of the scope's key
directFiles(s) == Range(dependencies[dependencyGraphKey(s)]) \cap files

\* C13: a file appears in what getOwnFiles() returns if and only if it is a
\* direct dependency of the scope's key; files reached only through the
\* dependencies of a dependency are left out.
C13_OwnFilesAreDirectDependencies ==
    lastOp.op = "getOwnFiles" =>
        \A f \in PkgPaths : f \in Range(lastOp.value) <=> f \in directFiles(lastOp.scope)

\* the component a key of the form component:X names
componentNamed(key) == IF key = "component:Widget" THEN "Widget" ELSE key

\* what one dependency resolves to: a loaded file, a registered component's
\* file, or nothing
resolved(dependency) ==
    IF dependency \in ComponentKeys
    THEN IF hasComponent(componentNamed(dependency))
         THEN <<componentFile(componentNamed(dependency))>> ELSE <<>>
    ELSE IF dependency \in files THEN <<dependency>> ELSE <<>>

\* C14: getAllFiles() returns, in the order getAllDependencies returns the
\* scope's transitive dependencies, the loaded file or the registered
\* component's file each dependency resolves to, no pkgPath twice;
\* dependencies that resolve to nothing are skipped.
C14_AllFilesAreResolvedDependencies ==
    (lastOp.op = "read" /\ lastOp.arg = "getAllFiles") =>
        LET deps == getAllDependencies(dependencies, dependencyGraphKey(lastOp.scope))
        IN  /\ lastOp.value = flatten([i \in 1..Len(deps) |-> resolved(deps[i])])
            /\ \A i, j \in 1..Len(lastOp.value) :
                  lastOp.value[i] = lastOp.value[j] => i = j

\* the callables named like `name`, whatever the case of the letters, that the
\* files of scope s which are not typedef'd declare
declaredAs(s, name) ==
    UNION {{[name |-> BscFile(f).callables[i].name, file |-> f, index |-> i] :
                i \in {k \in 1..Len(BscFile(f).callables) :
                          toLowerCase(BscFile(f).callables[k].name) = toLowerCase(name)}} :
            f \in {x \in Range(computeAllFiles(s)) : ~BscFile(x).hasTypedef}}

\* C15: getCallableByName(n) compares names without regard to case; it returns
\* a callable of the scope's own files when one is named n, otherwise a
\* callable of the parent scope's files when one is named n, and none when no
\* callable is named n.
C15_ClosestCallableByName ==
    lastOp.op = "getCallableByName" =>
        LET s == lastOp.scope
            own == declaredAs(s, lastOp.arg)
            inherited == IF hasParentScope(s) THEN declaredAs(getParentScope(s), lastOp.arg) ELSE {}
        IN  IF own # {} THEN lastOp.value \in own
            ELSE IF inherited # {} THEN lastOp.value \in inherited
            ELSE lastOp.value = noCallable

\* the source scope declares Helper and the global scope declares helper; the
\* source scope was asked for a name both match
C15_Witness ==
    /\ lastOp.op = "getCallableByName"
    /\ lastOp.scope = SourceScope
    /\ declaredAs(SourceScope, lastOp.arg) # {}
    /\ declaredAs(GlobalScope, lastOp.arg) # {}
    /\ lastOp.value.name # lastOp.arg

\* the namespaces, as lowercase parts, that the files of scope s which are not
\* typedef'd declare
declaredNamespaces(s) ==
    UNION {{lowerParts(BscFile(f).namespaceStatements[k].parts) :
                k \in 1..Len(BscFile(f).namespaceStatements)} :
            f \in {x \in Range(computeAllFiles(s)) : ~BscFile(x).hasTypedef}}

\* C16: isKnownNamespace(name) returns true if and only if a namespace declared
\* in a file of the scope that is not typedef'd has a lowercase full name equal
\* to the lowercase name or starting with the lowercase name followed by a dot.
C16_KnownNamespaceIffDeclared ==
    lastOp.op = "isKnownNamespace" =>
        (lastOp.value <=>
            \E ns \in declaredNamespaces(lastOp.scope) :
                LET asked == lowerParts(splitDots(lastOp.arg))
                IN  Len(asked) <= Len(ns) /\ \A i \in 1..Len(asked) : ns[i] = asked[i])

\* the files that have a type definition file
Typedefs == {f \in PkgPaths : BscFile(f).hasTypedef}

\* the per-file stages of validate() that ran on file f
stagesOn(f) ==
    {"unknownCalls:" \o f, "paramCount:" \o f, "shadowedVars:" \o f,
     "collisions:" \o f, "namespaces:" \o f}

\* C17: a file whose hasTypedef is true contributes nothing to a scope: no
\* container of getOwnCallables() or getAllCallables() comes from it, no entry of
\* the class map or of the namespace lookup comes from it, validate() runs no
\* per-file check on it and pushes no diagnostic located in it (so none for its
\* calls, classes, new-expressions or script imports), and getDiagnostics()
\* returns none of its file diagnostics.
C17_TypedefFilesContributeNothing ==
    /\ lastOp.op \in {"getOwnCallables", "getAllCallables"} =>
          \A i \in 1..Len(lastOp.value) : lastOp.value[i].file \notin Typedefs
    /\ (lastOp.op = "read" /\ lastOp.arg = "classMap") =>
          \A n \in DOMAIN lastOp.value : lastOp.value[n].file \notin Typedefs
    /\ (lastOp.op = "read" /\ lastOp.arg = "namespaceLookup") =>
          \A i \in 1..Len(lastOp.value.keys) :
              lastOp.value.at[lastOp.value.keys[i]].file \notin Typedefs
    /\ lastOp.op = "validated" =>
          /\ \A f \in Typedefs : Range(lastOp.value.trace) \cap stagesOn(f) = {}
          /\ \A i \in 1..Len(lastOp.value.pushed) : lastOp.value.pushed[i].file \notin Typedefs
          /\ \A i \in 1..Len(diagnostics[lastOp.scope]) :
                diagnostics[lastOp.scope][i].file \notin Typedefs
    /\ lastOp.op = "getDiagnostics" =>
          \A i \in 1..Len(lastOp.value) : lastOp.value[i].file \notin Typedefs

\* validate() has returned for a scope whose file list holds a typedef'd file
\* and a file that is checked
C17_Witness ==
    /\ lastOp.op = "validated"
    /\ Typedefs \cap Range(getAllFiles(cache[lastOp.scope], lastOp.scope)) # {}
    /\ Len(lastOp.value.trace) > 6
    /\ Len(lastOp.value.pushed) > 0

\* every lowercase name a callable of the program has
CallableNames ==
    UNION {{toLowerCase(BscFile(f).callables[i].name) : i \in 1..Len(BscFile(f).callables)} :
            f \in PkgPaths}

\* where the own scope of s declares a callable named n: the scope's files that
\* are not typedef'd, and nothing when s is the global scope, whose callables
\* count as global
ownDeclarations(s, n) ==
    IF s = GlobalScope THEN {}
    ELSE {<<x.file, x.index>> : x \in declaredAs(s, n)}

\* C18: for each lowercase callable name, validate() pushes a
\* duplicateFunctionImplementation diagnostic for every own-scope callable with
\* that name, carrying the callable's name and the scope's name, if and only if
\* the own scope declares at least two callables with that name (the global
\* scope's callables are not own callables); the diagnostics of one name are
\* ordered by the path of the declaring file, then by name.
C18_DuplicatesReportedForEachDeclaration ==
    lastOp.op = "validated" =>
        \A n \in CallableNames :
            LET s == lastOp.scope
                own == ownDeclarations(s, n)
                found == SelectSeq(lastOp.value.pushed,
                            LAMBDA d : /\ d.code = "duplicateFunctionImplementation"
                                       /\ toLowerCase(d.arg[1]) = n)
            IN  IF Cardinality(own) >= 2
                THEN /\ Len(found) = Cardinality(own)
                     /\ {<<found[i].file, found[i].at>> : i \in 1..Len(found)} = own
                     /\ \A i \in 1..Len(found) :
                           found[i].arg = <<BscFile(found[i].file).callables[found[i].at].name, s>>
                     /\ \A i, j \in 1..Len(found) :
                           i < j =>
                             \/ localeRank(found[i].file) < localeRank(found[j].file)
                             \/ /\ found[i].file = found[j].file
                                /\ localeRank(found[i].arg[1]) <= localeRank(found[j].arg[1])
                ELSE found = <<>>

\* validate() of the source scope has reported three declarations of foo, from
\* two files whose order in the file list is not the order of their paths
C18_Witness ==
    /\ lastOp.op = "validated"
    /\ lastOp.scope = SourceScope
    /\ computeAllFiles(SourceScope) = <<FC, FB>>
    /\ Len(SelectSeq(lastOp.value.pushed,
                      LAMBDA d : d.code = "duplicateFunctionImplementation")) = 3

\* C19: for each lowercase name with an own-scope callable and a callable of an
\* ancestor other than the global scope, the duplicate check pushes one
\* overridesAncestorFunction diagnostic per own callable, naming the file and
\* the scope of the last container of the ordered ancestor list; none when the
\* name is init, none for an own callable declared in the file of that last
\* container, and none for a name that only global-scope callables match (so
\* validate() of a scope whose only ancestor is the global scope pushes none).
C19_OverridesNameLastAncestor ==
    /\ lastOp.op = "findDuplicates" =>
          \A n \in CallableNames :
              LET s == lastOp.scope
                  own == ownDeclarations(s, n)
                  ancestors == SelectSeq(lastOp.value.callables,
                                  LAMBDA x : /\ x.scope \in AncestorScopes
                                             /\ toLowerCase(x.name) = n)
                  last == ancestors[Len(ancestors)]
                  expected == {o \in own : /\ ancestors # <<>>
                                           /\ n # "init"
                                           /\ last.file # o[1]}
                  found == SelectSeq(lastOp.value.diagnostics,
                              LAMBDA d : /\ d.code = "overridesAncestorFunction"
                                         /\ toLowerCase(d.arg[1]) = n)
              IN  /\ Len(found) = Cardinality(expected)
                  /\ {<<found[i].file, found[i].at>> : i \in 1..Len(found)} = expected
                  /\ \A i \in 1..Len(found) :
                        found[i].arg = <<BscFile(found[i].file).callables[found[i].at].name, s,
                                         last.file, last.scope>>
    /\ lastOp.op = "validated" =>
          \A i \in 1..Len(lastOp.value.pushed) :
              lastOp.value.pushed[i].code # "overridesAncestorFunction"

\* the check was applied to a scope whose two ancestors both declare a name the
\* scope declares too, and it reported the override
C19_Witness ==
    /\ lastOp.op = "findDuplicates"
    /\ \E i, j \in 1..Len(lastOp.value.callables) :
          /\ lastOp.value.callables[i].scope = "parent"
          /\ lastOp.value.callables[j].scope = "grandparent"
          /\ toLowerCase(lastOp.value.callables[i].name) = toLowerCase(lastOp.value.callables[j].name)
          /\ lastOp.value.callables[i].file # lastOp.value.callables[j].file
    /\ \E i \in 1..Len(lastOp.value.diagnostics) :
          lastOp.value.diagnostics[i].code = "overridesAncestorFunction"

\* whether the callable map of scope s, its own callables and its ancestors',
\* has an entry for the name
inCallableMap(s, name) ==
    \/ declaredAs(s, name) # {}
    \/ hasParentScope(s) /\ declaredAs(getParentScope(s), name) # {}

\* C20: for each function call of each file of the scope that is not typedef'd,
\* validate() pushes exactly one callToUnknownFunction diagnostic, carrying the
\* call's name and the scope's name and located at the call, if the call is not
\* `super` in a .bs file, no local variable has the called name, and the
\* callable map has no entry for the lowercase name; it pushes none for the
\* call otherwise, and none located anywhere else.
C20_UnknownCallsReportedOnce ==
    lastOp.op = "validated" =>
        LET s == lastOp.scope
            found == SelectSeq(lastOp.value.pushed, LAMBDA d : d.code = "callToUnknownFunction")
            checkedFiles == {f \in Range(computeAllFiles(s)) : ~BscFile(f).hasTypedef}
        IN  /\ \A f \in checkedFiles :
                  \A i \in 1..Len(BscFile(f).functionCalls) :
                      LET call == BscFile(f).functionCalls[i]
                          unknown ==
                              /\ ~(toLowerCase(call.name) = "super" /\ BscFile(f).extension = ".bs")
                              /\ ~call.hasLocalVar
                              /\ ~inCallableMap(s, call.name)
                          here == SelectSeq(found, LAMBDA d : d.file = f /\ d.at = i)
                      IN  IF unknown
                          THEN here = << [code |-> "callToUnknownFunction", file |-> f, at |-> i,
                                          arg |-> <<call.name, s>>] >>
                          ELSE here = <<>>
            /\ \A k \in 1..Len(found) :
                  /\ found[k].file \in checkedFiles
                  /\ found[k].at \in 1..Len(BscFile(found[k].file).functionCalls)

\* validate() of the source scope has checked a .brs file that calls super and
\* a .bs file that calls super, a name held by a local variable, and an
\* undeclared name: it reported the first and the last
C20_Witness ==
    /\ lastOp.op = "validated"
    /\ lastOp.scope = SourceScope
    /\ {FA, FC} \subseteq Range(computeAllFiles(SourceScope))
    /\ \E k \in 1..Len(lastOp.value.pushed) :
          /\ lastOp.value.pushed[k].code = "callToUnknownFunction"
          /\ lastOp.value.pushed[k].file = FA
          /\ lastOp.value.pushed[k].arg[1] = "super"
    /\ Len(SelectSeq(lastOp.value.pushed,
                      LAMBDA d : d.code = "callToUnknownFunction" /\ d.file = FC)) = 1

\* the callables the callable map of scope s lists under the name
mapEntries(s, name) ==
    declaredAs(s, name)
    \cup (IF hasParentScope(s) THEN declaredAs(getParentScope(s), name) ELSE {})

\* whether callable x is listed before callable y: by path, then by name
listedBefore(x, y) ==
    \/ localeRank(x.file) < localeRank(y.file)
    \/ localeRank(x.file) = localeRank(y.file) /\ localeRank(x.name) < localeRank(y.name)

\* C21: for each function call of a checked file whose lowercase name has an
\* entry in the callable map, the arity check takes the first container of the
\* sorted list, counts its parameters (maxParams) and its parameters that are
\* not optional (minParams), and pushes one mismatchArgumentCount diagnostic
\* exactly when the argument count is below minParams or above maxParams; the
\* text is maxParams when the two are equal and minParams-maxParams otherwise.
\* A call that matches no callable gets no such diagnostic.
C21_ArityCheckedAgainstFirstContainer ==
    lastOp.op = "validated" =>
        LET s == lastOp.scope
            found == SelectSeq(lastOp.value.pushed, LAMBDA d : d.code = "mismatchArgumentCount")
            checkedFiles == {f \in Range(computeAllFiles(s)) : ~BscFile(f).hasTypedef}
        IN  /\ \A f \in checkedFiles :
                  \A i \in 1..Len(BscFile(f).functionCalls) :
                      LET call == BscFile(f).functionCalls[i]
                          entries == mapEntries(s, call.name)
                          first == CHOOSE x \in entries :
                                       \A y \in entries : y = x \/ listedBefore(x, y)
                          params == BscFile(first.file).callables[first.index].params
                          maxParams == Len(params)
                          minParams == Len(SelectSeq(params, LAMBDA isOptional : ~isOptional))
                          text == IF minParams = maxParams THEN ToString(maxParams)
                                  ELSE ToString(minParams) \o "-" \o ToString(maxParams)
                          here == SelectSeq(found, LAMBDA d : d.file = f /\ d.at = i)
                      IN  IF entries # {} /\ (call.args < minParams \/ call.args > maxParams)
                          THEN here = << [code |-> "mismatchArgumentCount", file |-> f, at |-> i,
                                          arg |-> <<text, ToString(call.args)>>] >>
                          ELSE here = <<>>
            /\ \A k \in 1..Len(found) : found[k].file \in checkedFiles

\* validate() of the source scope, whose files were attached in the order
\* source/c.bs, source/B.brs, has checked the call foo() of source/c.bs against
\* foo(a, b = ...) of source/B.brs, the first container of the sorted list, and
\* reported ("1-2", 0); the call Undefined() got no arity diagnostic
C21_Witness ==
    /\ lastOp.op = "validated"
    /\ lastOp.scope = SourceScope
    /\ computeAllFiles(SourceScope) = <<FC, FB>>
    /\ \E k \in 1..Len(lastOp.value.pushed) :
          /\ lastOp.value.pushed[k].code = "mismatchArgumentCount"
          /\ lastOp.value.pushed[k].file = FC
          /\ lastOp.value.pushed[k].arg = <<"1-2", "0">>

ImportCodes == {"scriptSrcCannotBeEmpty", "referencedFileDoesNotExist", "scriptImportCaseMismatch"}

\* the files of scope s, typedef'd ones included, whose pkgPath is the given
\* path when the case of the letters is ignored
filesAt(s, path) ==
    {g \in Range(computeAllFiles(s)) : toLowerCase(BscFile(g).pkgPath) = toLowerCase(path)}

\* C22: for every script import of every checked file, resolved against the
\* scope's files by pkgPath without regard to case, validate() pushes exactly
\* one diagnostic located at the import - scriptSrcCannotBeEmpty when it is
\* unresolved and its text is empty after trimming, referencedFileDoesNotExist
\* when it is unresolved and has a text, scriptImportCaseMismatch with the
\* resolved file's pkgPath when the two paths differ in case - and none when
\* the import resolves to a file with the very same pkgPath.
C22_OneDiagnosticPerBadImport ==
    lastOp.op = "validated" =>
        LET s == lastOp.scope
            found == SelectSeq(lastOp.value.pushed, LAMBDA d : d.code \in ImportCodes)
            checkedFiles == {f \in Range(computeAllFiles(s)) : ~BscFile(f).hasTypedef}
        IN  /\ \A f \in checkedFiles :
                  \A j \in 1..Len(BscFile(f).scriptImports) :
                      LET scriptImport == BscFile(f).scriptImports[j]
                          matching == filesAt(s, scriptImport.pkgPath)
                          here == SelectSeq(found, LAMBDA d : d.file = f /\ d.at = j)
                      IN  IF matching = {}
                          THEN here = << [code |-> IF scriptImport.text \in {"", " "}
                                                   THEN "scriptSrcCannotBeEmpty"
                                                   ELSE "referencedFileDoesNotExist",
                                          file |-> f, at |-> j, arg |-> <<>>] >>
                          ELSE IF scriptImport.pkgPath \in {BscFile(g).pkgPath : g \in matching}
                               THEN here = <<>>
                               ELSE /\ Len(here) = 1
                                    /\ here[1].code = "scriptImportCaseMismatch"
                                    /\ here[1].arg \in {<<BscFile(g).pkgPath>> : g \in matching}
            /\ \A k \in 1..Len(found) : found[k].file \in checkedFiles

\* validate() of the source scope has met all four cases: Source/b.brs resolves
\* to source/B.brs, source/a.brs resolves as written, the blank import and the
\* import of a file that is not in the scope do not resolve
C22_Witness ==
    /\ lastOp.op = "validated"
    /\ lastOp.scope = SourceScope
    /\ computeAllFiles(SourceScope) = <<FC, FA, FB>>
    /\ {d.code : d \in Range(lastOp.value.pushed)} \cap ImportCodes = ImportCodes
    /\ Len(SelectSeq(lastOp.value.pushed, LAMBDA d : d.code \in ImportCodes)) = 3

\* where the files of scope s that are not typedef'd declare a namespace whose
\* first part is the lowercase name n: <<place of the file in the list, place
\* of the statement in the file>>
declarationsOf(s, n) ==
    LET fs == computeAllFiles(s)
    IN  {x \in (1..Len(fs)) \X (1..2) :
            /\ ~BscFile(fs[x[1]]).hasTypedef
            /\ x[2] <= Len(BscFile(fs[x[1]]).namespaceStatements)
            /\ toLowerCase(BscFile(fs[x[1]]).namespaceStatements[x[2]].parts[1]) = n}

\* the related information of a collision with the namespace named n: the file
\* and the name range of the first statement that declares it
declaredHere(s, n) ==
    LET all == declarationsOf(s, n)
        first == CHOOSE x \in all :
                     \A y \in all : x[1] < y[1] \/ (x[1] = y[1] /\ x[2] <= y[2])
        file == computeAllFiles(s)[first[1]]
    IN  <<file, <<file, first[2]>>>>

\* what the claim lets validate() push for the names of one list
collisionsExpected(s, f, names, code) ==
    \A i \in 1..Len(names) :
        LET n == toLowerCase(names[i])
            here == SelectSeq(lastOp.value.pushed,
                              LAMBDA d : d.code = code /\ d.file = f /\ d.at = i)
        IN  IF declarationsOf(s, n) # {}
            THEN here = << [code |-> code, file |-> f, at |-> i,
                            arg |-> <<names[i]>> \o declaredHere(s, n)] >>
            ELSE here = <<>>

\* C23: for every function parameter and every assignment target of a checked
\* file, validate() pushes parameterMayNotHaveSameNameAsNamespace, or
\* variableMayNotHaveSameNameAsNamespace for an assignment, if and only if the
\* lowercase name is a key of the scope's namespace lookup, and the diagnostic
\* points at the file and name range of that entry's declaration.
C23_CollisionIffNamespaceKey ==
    lastOp.op \in {"validated", "threw"} =>
        \A f \in {x \in Range(computeAllFiles(lastOp.scope)) : ~BscFile(x).hasTypedef} :
            /\ collisionsExpected(lastOp.scope, f, BscFile(f).parameters,
                                  "parameterMayNotHaveSameNameAsNamespace")
            /\ collisionsExpected(lastOp.scope, f, BscFile(f).assignmentStatements,
                                  "variableMayNotHaveSameNameAsNamespace")

ShadowCodes == {"localVarFunctionShadowsParentFunction", "localVarShadowedByScopedFunction",
                "localVarSameNameAsClass"}

\* the names, as written, of the classes with the lowercase name n that the
\* files of scope s which are not typedef'd declare
classesNamed(s, n) ==
    UNION {{BscFile(f).classStatements[k] :
                k \in {j \in 1..Len(BscFile(f).classStatements) :
                          toLowerCase(BscFile(f).classStatements[j]) = n}} :
            f \in {x \in Range(computeAllFiles(s)) : ~BscFile(x).hasTypedef}}

\* C24: for each local variable declaration of each checked file the shadowing
\* check pushes at most one diagnostic: for a function-typed variable,
\* localVarFunctionShadowsParentFunction('stdlib') when the name is a built-in,
\* else ('scope') when the name is in the callable map, else nothing (a class of
\* that name does not count); for any other variable, nothing when the name is
\* a built-in, else localVarShadowedByScopedFunction when the name is in the
\* callable map, else localVarSameNameAsClass with the class's name when the
\* name is a class, else nothing.
C24_ShadowingDecisionOrder ==
    lastOp.op = "validated" =>
        LET s == lastOp.scope
            found == SelectSeq(lastOp.value.pushed, LAMBDA d : d.code \in ShadowCodes)
            checkedFiles == {f \in Range(computeAllFiles(s)) : ~BscFile(f).hasTypedef}
        IN  /\ \A f \in checkedFiles :
                  \A i \in 1..Len(BscFile(f).variableDeclarations) :
                      LET decl == BscFile(f).variableDeclarations[i]
                          n == toLowerCase(decl.name)
                          builtIn == n \in globalCallableMap
                          callable == inCallableMap(s, decl.name)
                          classes == classesNamed(s, n)
                          here == SelectSeq(found, LAMBDA d : d.file = f /\ d.at = i)
                          one(code, arg) == << [code |-> code, file |-> f, at |-> i, arg |-> arg] >>
                      IN  CASE decl.isFunctionType /\ builtIn ->
                                 here = one("localVarFunctionShadowsParentFunction", <<"stdlib">>)
                            [] decl.isFunctionType /\ ~builtIn /\ callable ->
                                 here = one("localVarFunctionShadowsParentFunction", <<"scope">>)
                            [] ~decl.isFunctionType /\ ~builtIn /\ callable ->
                                 here = one("localVarShadowedByScopedFunction", <<>>)
                            [] ~decl.isFunctionType /\ ~builtIn /\ ~callable /\ classes # {} ->
                                 /\ Len(here) = 1
                                 /\ here[1].code = "localVarSameNameAsClass"
                                 /\ here[1].arg \in {<<name>> : name \in classes}
                            [] OTHER -> here = <<>>
            /\ \A k \in 1..Len(found) : found[k].file \in checkedFiles

\* validate() of the source scope has checked source/c.bs with the classes of
\* source/B.brs in scope and without the callables of source/a.brs, and pushed
\* each of the four diagnostics
C24_Witness ==
    /\ lastOp.op = "validated"
    /\ lastOp.scope = SourceScope
    /\ computeAllFiles(SourceScope) = <<FC, FB>>
    /\ {<<d.code, d.arg>> : d \in {x \in Range(lastOp.value.pushed) : x.file = FC}}
          \cap (ShadowCodes \X {<<>>, <<"stdlib">>, <<"scope">>, <<"Widget">>})
        = {<<"localVarFunctionShadowsParentFunction", <<"stdlib">>>>,
           <<"localVarFunctionShadowsParentFunction", <<"scope">>>>,
           <<"localVarShadowedByScopedFunction", <<>>>>,
           <<"localVarSameNameAsClass", <<"Widget">>>>}

CollisionCodes == {"scopeFunctionShadowedByBuiltInFunction", "functionCannotHaveSameNameAsClass"}

\* C25: for each callable with a non-empty name that a checked file declares,
\* validate() pushes scopeFunctionShadowedByBuiltInFunction exactly when the
\* lowercase name is a built-in, and functionCannotHaveSameNameAsClass exactly
\* when the lowercase name is a class of the scope, the built-in one first when
\* both apply; a callable with an empty name gets neither.
C25_FunctionCollisionsIndependent ==
    lastOp.op = "validated" =>
        LET s == lastOp.scope
            found == SelectSeq(lastOp.value.pushed, LAMBDA d : d.code \in CollisionCodes)
            checkedFiles == {f \in Range(computeAllFiles(s)) : ~BscFile(f).hasTypedef}
        IN  /\ \A f \in checkedFiles :
                  \A i \in 1..Len(BscFile(f).callables) :
                      LET func == BscFile(f).callables[i]
                          n == toLowerCase(func.name)
                          here == SelectSeq(found, LAMBDA d : d.file = f /\ d.at = i)
                          codes == [k \in 1..Len(here) |-> here[k].code]
                          builtIn == IF n \in globalCallableMap
                                     THEN << "scopeFunctionShadowedByBuiltInFunction" >> ELSE <<>>
                          class == IF classesNamed(s, n) # {}
                                   THEN << "functionCannotHaveSameNameAsClass" >> ELSE <<>>
                      IN  /\ codes = (IF func.name = "" THEN <<>> ELSE builtIn \o class)
                          /\ \A k \in 1..Len(here) :
                                here[k].code = "functionCannotHaveSameNameAsClass"
                                    => here[k].arg = <<func.name>>
            /\ \A k \in 1..Len(found) : found[k].file \in checkedFiles

\* validate() of the source scope has checked source/c.bs, whose callable Helper
\* is a built-in and a class, whose callable foo is a class only and whose
\* callable Init is neither, and whose last callable has no name
C25_Witness ==
    /\ lastOp.op = "validated"
    /\ lastOp.scope = SourceScope
    /\ FC \in Range(computeAllFiles(SourceScope))
    /\ {<<d.code, d.at>> : d \in {x \in Range(lastOp.value.pushed) :
                                      x.code \in CollisionCodes /\ x.file = FC}}
        = {<<"scopeFunctionShadowedByBuiltInFunction", 1>>,
           <<"functionCannotHaveSameNameAsClass", 1>>,
           <<"functionCannotHaveSameNameAsClass", 2>>}

\* ---------------------------------------------------- namespace lookups

\* how many files the source scope depends on when the program is created to
\* build its namespace lookup
MaxNamespaceFiles == 3

NamespaceDeclaring == {FB, FT} \cup NamespacePaths

NamespaceFileLists ==
    {q \in UNION {[1..n -> NamespaceDeclaring] : n \in 0..MaxNamespaceFiles} :
        \A i, j \in 1..Len(q) : q[i] = q[j] => i = j}

\* the program created with the namespace files loaded and any of these file
\* lists in the source scope
InitNamespaces ==
    /\ files = PkgPaths \cup NamespacePaths
    /\ \E own \in NamespaceFileLists :
          dependencies = [k \in Keys \cup ComponentKeys \cup NamespacePaths |->
                             IF k \in files THEN BscFile(k).imports
                             ELSE IF k = dependencyGraphKey(GlobalScope) THEN <<FG>>
                             ELSE IF k = dependencyGraphKey(SourceScope) THEN own
                             ELSE <<>>]
    /\ subscribed = Scopes
    /\ isValidated = [s \in Scopes |-> FALSE]
    /\ cache = [s \in Scopes |-> noCache]
    /\ diagnostics = [s \in Scopes |-> <<>>]
    /\ stack = <<>>
    /\ plugin = Events
    /\ lastOp = op("constructor", "none", "", "")
    /\ ops = 0
    /\ handlerActed = FALSE
    /\ noisy = {}
    /\ lastRun = [s \in Scopes |-> NoRun]

\* the host reads the cached getters and asks for namespaces
NextNamespaces ==
    \/ \E s \in Scopes, slot \in Slots : ops < MaxQueries /\ Read(s, slot)
    \/ \E s \in Scopes, name \in NamespaceNames : ops < MaxQueries /\ IsKnownNamespace(s, name)

SpecNamespaces == InitNamespaces /\ [][NextNamespaces]_vars

\* the namespace statements the files of scope s that are not typedef'd
\* declare, in file and declaration order
namespaceStatementsOf(s) ==
    LET fs == SelectSeq(computeAllFiles(s), LAMBDA f : ~BscFile(f).hasTypedef)
    IN  flatten([i \in 1..Len(fs) |->
            [j \in 1..Len(BscFile(fs[i]).namespaceStatements) |->
                [file |-> fs[i], index |-> j,
                 parts |-> BscFile(fs[i]).namespaceStatements[j].parts,
                 body |-> BscFile(fs[i]).namespaceStatements[j].body]]])

\* whether the lower-case name `key` is a prefix of the name of statement st
prefixOf(key, st) ==
    /\ Len(key) <= Len(st.parts)
    /\ lowerParts(SubSeq(st.parts, 1, Len(key))) = key

\* the three properties of a namespace lookup of scope s
wellFormedLookup(lookup, s) ==
    LET sts == namespaceStatementsOf(s)
        prefixes == UNION {{lowerParts(SubSeq(sts[i].parts, 1, k)) : k \in 1..Len(sts[i].parts)} :
                            i \in 1..Len(sts)}
    IN  /\ DOMAIN lookup.at = prefixes
        /\ \A key \in DOMAIN lookup.at :
              LET entry == lookup.at[key]
                  first == CHOOSE i \in 1..Len(sts) :
                              /\ prefixOf(key, sts[i])
                              /\ \A j \in 1..(i - 1) : ~prefixOf(key, sts[j])
                  same == SelectSeq(sts, LAMBDA st : lowerParts(st.parts) = key)
              IN  /\ entry.file = sts[first].file
                  /\ entry.fullName = SubSeq(sts[first].parts, 1, Len(key))
                  /\ entry.nameRange = <<sts[first].file, sts[first].index>>
                  /\ entry.statements = flatten([i \in 1..Len(same) |-> same[i].body])
                  /\ Len(key) > 1 =>
                        LET parent == SubSeq(key, 1, Len(key) - 1)
                        IN  /\ parent \in DOMAIN lookup.at
                            /\ key[Len(key)] \in DOMAIN lookup.at[parent].namespaces
                            /\ lookup.at[parent].namespaces[key[Len(key)]] = key

\* C26: buildNamespaceLookup() returns a map keyed by lower-case full name in
\* which every prefix of every namespace that a file of the scope that is not
\* typedef'd declares has an entry, the statements of an entry are the bodies
\* of the statements of that full name in file and declaration order, the
\* first declaration fixes file, casing and name range, and the parent of every
\* entry of more than one part lists that entry under its last part.
C26_NamespaceLookupWellFormed ==
    (lastOp.arg = "namespaceLookup" /\ lastOp.op \in {"read", "readThrew"}) =>
        /\ lastOp.op = "read"
        /\ wellFormedLookup(lastOp.value, lastOp.scope)

\* the same for the calls of buildNamespaceLookup() that return
C26_WellFormedWhenReturned ==
    (lastOp.arg = "namespaceLookup" /\ lastOp.op = "read") =>
        wellFormedLookup(lastOp.value, lastOp.scope)

\* a lookup was built from source/n2.brs and then source/n1.brs: the child
\* net.http.Client came before its parents, and Net has two bodies
C26_Coalesced ==
    /\ lastOp.op = "read"
    /\ lastOp.arg = "namespaceLookup"
    /\ lastOp.scope = SourceScope
    /\ computeAllFiles(SourceScope) = <<FN2, FN1>>
    /\ lastOp.value.at[<<"net">>].statements = <<"n2.b", "n1.a">>
    /\ lastOp.value.at[<<"net", "http">>].fullName = <<"net", "http">>

\* ------------------------------------------------- the order of diagnostics

\* the file list of scope s had its direct dependencies been added in the
\* opposite order
filesDiscoveredBackwards(s) ==
    LET key == dependencyGraphKey(s)
        graph == [dependencies EXCEPT ![key] =
                     [i \in 1..Len(@) |-> @[Len(@) + 1 - i]]]
    IN  collectFiles(getAllDependencies(graph, key))

\* what the checks of validate() on scope s push when they run on that list
pushedBackwards(s) ==
    LET c == [slot \in {"getAllFiles"} |-> filesDiscoveredBackwards(s)]
        cs == [x \in Scopes |-> IF x = s THEN c ELSE cache[x]]
    IN  pipelineDiagnostics(c, s, sortCallables(getAllCallables(cs, s)))

\* the callables a running validate() works with are those of getAllCallables(),
\* ordered by path and then by name
callablesSorted ==
    \A i \in 1..Len(stack) :
        stack[i].pc \in {"before", "after"} =>
            LET sorted == stack[i].callables
            IN  /\ \A j, k \in 1..Len(sorted) : j < k => ~comesBefore(sorted[k], sorted[j])
                /\ \A n \in {lowerNameOf(sorted[j]) : j \in 1..Len(sorted)} :
                      LET list == containersNamed(sorted, n)
                      IN  \A j, k \in 1..Len(list) : j < k => ~comesBefore(list[k], list[j])

\* C27: validate() orders the callables of getAllCallables() by the declaring
\* file's path and then by name before any check runs, each list of the
\* callable map keeps that order, and the diagnostics one validate() pushes
\* come in the same order when the same files are discovered in another order.
C27_DiagnosticOrderIndependentOfDiscovery ==
    /\ callablesSorted
    /\ (lastOp.op = "validated" /\ lastOp.value.quiet /\ ~lastOp.value.invalidated) =>
          SelectSeq(lastOp.value.pushed, LAMBDA d : d.code \notin {"plugin", "host"})
              = pushedBackwards(lastOp.scope)

\* the first half of C27 alone, and the diagnostics as a set rather than a list
C27_SortedAndSameSet ==
    /\ callablesSorted
    /\ (lastOp.op = "validated" /\ lastOp.value.quiet /\ ~lastOp.value.invalidated) =>
          Range(SelectSeq(lastOp.value.pushed, LAMBDA d : d.code \notin {"plugin", "host"}))
              = Range(pushedBackwards(lastOp.scope))

\* a validate() worked with callables of two files that getAllCallables()
\* lists in the other order
C27_Reordered ==
    /\ stack # <<>>
    /\ Top.pc = "before"
    /\ Top.callables # getAllCallables(cache, Top.scope)
    /\ Len(Top.callables) > 3

\* ------------------------------------------------------ forced validation

\* a call validate(true) enters the pipeline, whether the scope is valid or not
forcedEnters ==
    (ops' = ops + 1 /\ lastOp'.op = "validate" /\ lastOp'.arg = "force") =>
        /\ lastOp'.value = "entered"
        /\ Len(stack') = Len(stack) + 1
        /\ stack'[Len(stack')].scope = lastOp'.scope
        /\ stack'[Len(stack')].force = TRUE
        /\ stack'[Len(stack')].pc = "parent"

\* the step after entering calls validate(force) on the parent when there is one
\* that is not valid, with the caller's flag, and calls nothing otherwise
parentOnlyWhenInvalid ==
    (stack # <<>> /\ stack[Len(stack)].pc = "parent" /\ stack' # stack) =>
        LET s == stack[Len(stack)].scope
        IN  IF s # GlobalScope /\ isValidated[GlobalScope] = FALSE
            THEN /\ Len(stack') = Len(stack) + 1
                 /\ stack'[Len(stack')].scope = GlobalScope
                 /\ stack'[Len(stack')].force = stack[Len(stack)].force
                 /\ stack'[Len(stack')].pc = "parent"
            ELSE /\ Len(stack') = Len(stack)
                 /\ stack'[Len(stack)].pc = "begin"
                 /\ isValidated' = isValidated

\* a forced validate() that returns has cleared the list, emitted both events
\* around the checks and left the scope valid
forcedEnds ==
    (lastOp.op = "validated" /\ lastOp.arg = "force") =>
        LET trace == lastOp.value.trace
        IN  /\ isValidated[lastOp.scope] = TRUE
            /\ Len(trace) >= 7
            /\ trace[1] = "clear"
            /\ trace[3] = "beforeScopeValidate"
            /\ SubSeq(trace, 4, 6) = <<"duplicates", "imports", "classes">>
            /\ trace[Len(trace) - 1] = "afterScopeValidate"
            /\ trace[Len(trace)] = "isValidated"
            /\ (lastOp.value.quiet /\ ~lastOp.value.invalidated)
                  => diagnostics[lastOp.scope] = lastOp.value.pushed

\* C28: validate(true) on a valid scope runs the whole pipeline again (the
\* list is cleared and rebuilt, both events are emitted) and leaves the scope
\* valid; the flag goes to the parent only when the parent is not valid, and a
\* valid parent is not validated again.
C28_ForceRevalidates ==
    /\ [][forcedEnters /\ parentOnlyWhenInvalid]_vars
    /\ [](forcedEnds)

\* validate(true) was called on the source scope while it and the global scope
\* were valid: the call is past the parent check, which called nothing
C28_Witness ==
    /\ lastOp.op = "parentChecked"
    /\ lastOp.arg = "force"
    /\ lastOp.scope = SourceScope
    /\ lastOp.value = FALSE
    /\ isValidated[SourceScope] = TRUE
    /\ isValidated[GlobalScope] = TRUE

\* ------------------------------------------------------------ construction

\* a Scope object when the constructor's body starts: the property initialisers
\* have run, and isValidated has no value yet
newScope == [programHandles |-> <<>>, cache |-> noCache, diagnostics |-> <<>>]

\* this.field = value
assigned(o, field, value) ==
    [f \in DOMAIN o \cup {field} |-> IF f = field THEN value ELSE o[f]]

\* Scope.invalidate on the object o
invalidated(o) == [assigned(o, "isValidated", FALSE) EXCEPT !.cache = noCache]

\* Scope.onDependenciesChanged(key) on the object o
dependenciesChanged(o, key) == invalidated(o)

\* DependencyGraph.onchange(key, handler, emitImmediately), the handler being
\* bound to o: the handle it returns, the keys the handler was called with, and
\* the object as the handler leaves it
onchange(o, key, emitImmediately) ==
    [handle |-> key,
     emitted |-> IF emitImmediately THEN <<key>> ELSE <<>>,
     object |-> IF emitImmediately THEN dependenciesChanged(o, key) ELSE o]

\* a variant of the constructor that subscribes to nothing
constructorWithoutSubscription(s) ==
    [object |-> assigned(newScope, "isValidated", FALSE), emitted |-> <<>>, immediately |-> <<>>]

\* Scope.constructor: the object it leaves, and what the graph was asked
constructorOf(s) ==
    LET key == dependencyGraphKey(s)
        o == assigned(newScope, "isValidated", FALSE)
        subscription == onchange(o, key, TRUE)
    IN  [object |-> [subscription.object EXCEPT
                        !.programHandles = Append(@, subscription.handle)],
         emitted |-> subscription.emitted,
         immediately |-> <<TRUE>>]

\* the per-scope variable f with the value of the new scope s
withScope(f, s, value) == [x \in DOMAIN f \cup {s} |-> IF x = s THEN value ELSE f[x]]

\* new Scope(name, dependencyGraphKey, program)
Construct(s) ==
    /\ s \notin DOMAIN isValidated
    /\ LET made == constructorOf(s)
       IN  /\ isValidated' = withScope(isValidated, s, made.object.isValidated)
           /\ cache' = withScope(cache, s, made.object.cache)
           /\ diagnostics' = withScope(diagnostics, s, made.object.diagnostics)
           /\ subscribed' = subscribed \cup
                   {x \in {s} : dependencyGraphKey(s) \in Range(made.object.programHandles)}
           /\ lastOp' = op("constructed", s, "",
                           [programHandles |-> made.object.programHandles,
                            emitted |-> made.emitted,
                            immediately |-> made.immediately])
    /\ UNCHANGED <<dependencies, files, stack, plugin, ops, handlerActed, noisy, lastRun>>

\* the program before it has made its scopes
InitConstruct ==
    /\ files = PkgPaths \ Loadable
    /\ dependencies = [k \in Keys \cup ComponentKeys |->
                          IF k \in PkgPaths \ Loadable THEN BscFile(k).imports
                          ELSE IF k = dependencyGraphKey(GlobalScope) THEN <<FG>>
                          ELSE <<>>]
    /\ subscribed = {}
    /\ isValidated = [s \in {} |-> FALSE]
    /\ cache = [s \in {} |-> noCache]
    /\ diagnostics = [s \in {} |-> <<>>]
    /\ stack = <<>>
    /\ plugin = Events
    /\ lastOp = op("constructor", "none", "", "")
    /\ ops = 0
    /\ handlerActed = FALSE
    /\ noisy = {}
    /\ lastRun = [s \in Scopes |-> NoRun]

\* the program makes its scopes, and then runs as before
NextConstruct ==
    \/ \E s \in Scopes : Construct(s)
    \/ (DOMAIN isValidated = Scopes /\ Next)

SpecConstruct == InitConstruct /\ [][NextConstruct]_vars

\* what the constructor leaves: one subscription, on the scope's own key, that
\* emitted at once, and an invalid scope with nothing cached and no diagnostics
constructedInvalid ==
    lastOp.op = "constructed" =>
        LET s == lastOp.scope
        IN  /\ lastOp.value.programHandles = <<dependencyGraphKey(s)>>
            /\ lastOp.value.immediately = <<TRUE>>
            /\ lastOp.value.emitted = <<dependencyGraphKey(s)>>
            /\ s \in subscribed
            /\ isValidated[s] = FALSE
            /\ cache[s] = noCache
            /\ diagnostics[s] = <<>>

\* a change of the dependencies of the key of a scope that is still subscribed
\* leaves the scope invalid, with nothing cached
changeInvalidates ==
    \A s \in Scopes :
        (/\ DOMAIN isValidated = Scopes
         /\ s \in subscribed
         /\ dependencies'[dependencyGraphKey(s)] # dependencies[dependencyGraphKey(s)])
            => (isValidated'[s] = FALSE /\ cache'[s] = noCache)

ancestorsNamed(callables, n) ==
    SelectSeq(callables, LAMBDA x : x.scope \in AncestorScopes /\ toLowerCase(x.name) = n)

\* the closest of the ancestors that have a container in the list
closestOf(containers) ==
    IF \E i \in 1..Len(containers) : containers[i].scope = "parent"
    THEN "parent" ELSE "grandparent"

\* C30: when several ancestors other than the global scope declare a callable
\* of the name of an own callable, the overridesAncestorFunction diagnostic
\* names the file and the scope of the closest ancestor's callable, not those
\* of a more distant one.
C30_OverrideNamesClosestAncestor ==
    lastOp.op = "findDuplicates" =>
        \A i \in 1..Len(lastOp.value.diagnostics) :
            LET d == lastOp.value.diagnostics[i]
                ancestors == ancestorsNamed(lastOp.value.callables, toLowerCase(d.arg[1]))
            IN  d.code = "overridesAncestorFunction" =>
                   /\ d.arg[4] = closestOf(ancestors)
                   /\ \E k \in 1..Len(ancestors) :
                         /\ ancestors[k].scope = d.arg[4]
                         /\ BscFile(ancestors[k].file).pkgPath = d.arg[3]

\* the same when a single ancestor declares the name
C30_SingleAncestorNamed ==
    lastOp.op = "findDuplicates" =>
        \A i \in 1..Len(lastOp.value.diagnostics) :
            LET d == lastOp.value.diagnostics[i]
                ancestors == ancestorsNamed(lastOp.value.callables, toLowerCase(d.arg[1]))
            IN  (/\ d.code = "overridesAncestorFunction"
                 /\ Cardinality({ancestors[k].scope : k \in 1..Len(ancestors)}) = 1) =>
                   /\ d.arg[4] = closestOf(ancestors)
                   /\ \E k \in 1..Len(ancestors) :
                         /\ ancestors[k].scope = d.arg[4]
                         /\ BscFile(ancestors[k].file).pkgPath = d.arg[3]

\* source/c.bs declares Helper, the parent declares helper in common/g.brs and
\* the grandparent in common/h.brs, and the check named the grandparent's
C30_DistantAncestorNamed ==
    /\ lastOp.op = "findDuplicates"
    /\ \E i \in 1..Len(lastOp.value.diagnostics) :
          LET d == lastOp.value.diagnostics[i]
          IN  /\ d.code = "overridesAncestorFunction"
              /\ d.file = FC
              /\ d.arg = <<"Helper", lastOp.scope, FH, "grandparent">>
              /\ \E k \in 1..Len(lastOp.value.callables) :
                    /\ lastOp.value.callables[k].scope = "parent"
                    /\ lastOp.value.callables[k].file = FG

\* --------------------------------------------------------- component keys

\* C31: for a dependency of the form component:X that getAllDependencies
\* returns, getAllFiles() looks the component up by the name X and adds the
\* component's file when there is one; every other key is looked up as a
\* pkgPath.
C31_ComponentKeysLookedUpByName ==
    (lastOp.op = "read" /\ lastOp.arg = "getAllFiles") =>
        \A dependency \in Range(getAllDependencies(dependencies,
                                                   dependencyGraphKey(lastOp.scope))) :
            IF dependency \in ComponentKeys
            THEN hasComponent(componentNamed(dependency))
                    <=> componentFile(componentNamed(dependency)) \in Range(lastOp.value)
            ELSE dependency \in files <=> dependency \in Range(lastOp.value)

\* the second half of C31 alone: the keys that name no component
C31_OtherKeysArePkgPaths ==
    (lastOp.op = "read" /\ lastOp.arg = "getAllFiles") =>
        \A dependency \in Range(getAllDependencies(dependencies,
                                                   dependencyGraphKey(lastOp.scope)))
                          \ ComponentKeys :
            dependency \in files <=> dependency \in Range(lastOp.value)

\* getAllFiles() was read on a scope with a file and a component among its
\* dependencies, and returned the file
C31_FileBesideComponent ==
    /\ lastOp.op = "read"
    /\ lastOp.arg = "getAllFiles"
    /\ dependencies[dependencyGraphKey(lastOp.scope)] = <<"component:Widget", FC>>
    /\ lastOp.value = <<FC>>

\* the operations of the program, which owns the dependency graph and the files;
\* every other operation is a Scope's
ProgramOperations == {"addDependency", "removeDependency", "loadFile", "unloadFile"}

\* the step is an operation of a Scope, or a step of its validate()
scopeActs == lastOp'.op \notin ProgramOperations

\* the graph and the loaded files are as they were, and no other scope's
\* subscription was made or ended
graphUntouched ==
    /\ dependencies' = dependencies
    /\ files' = files
    /\ subscribed' \ {lastOp'.scope} = subscribed \ {lastOp'.scope}

\* every other scope keeps its diagnostics, and keeps its cache but for the file
\* list that its own getter stores when the acting scope asks it for its callables
othersUntouched ==
    \A x \in DOMAIN cache \ {lastOp'.scope} :
        /\ diagnostics'[x] = diagnostics[x]
        /\ cache'[x] \in {cache[x], afterReads(cache[x], x, {"getAllFiles"})}

\* C32: no Scope operation (constructor, validate, invalidate, dispose, getter
\* or check) changes a node or an edge of the shared dependency graph: a scope
\* only makes and ends its own subscription and queries the graph. The cache
\* and the diagnostics of a scope are changed by that scope's own operations
\* only: an operation on one scope never clears or rewrites what another scope
\* has cached or pushed (an invalid parent is validated by its own validate()).
C32_ScopesLeaveGraphAndOthersAlone ==
    [][scopeActs => (graphUntouched /\ othersUntouched)]_vars

\* the source scope was invalidated while the global scope was valid, with
\* cached views and diagnostics of its own, and a file attached to its key
C32_InvalidatedBesideValidScope ==
    /\ lastOp.op = "invalidate"
    /\ lastOp.scope = SourceScope
    /\ isValidated[GlobalScope] = TRUE
    /\ "getAllFiles" \in DOMAIN cache[GlobalScope]
    /\ diagnostics[GlobalScope] # <<>>
    /\ dependencies[dependencyGraphKey(SourceScope)] # <<>>

\* the diagnostics of list ds that the suppression predicate lets through
unsuppressed(ds) == SelectSeq(ds, LAMBDA d : ~diagnosticIsSuppressed(d))

\* the diagnostics of the own files of s that have no typedef
ownFileDiagnostics(s) ==
    UNION {Range(BscFile(f).diagnostics) : f \in Range(getOwnFiles(cache[s], s)) \ Typedefs}

\* `returned` is the scope-level list followed by the diagnostics of the own
\* files, without those the suppression predicate matches
merged(returned, scopeLevel, s) ==
    LET first == unsuppressed(scopeLevel)
    IN  /\ Len(returned) >= Len(first)
        /\ SubSeq(returned, 1, Len(first)) = first
        /\ {returned[i] : i \in (Len(first) + 1)..Len(returned)}
              = {d \in ownFileDiagnostics(s) : ~diagnosticIsSuppressed(d)}
        /\ \A i \in 1..Len(returned) : ~diagnosticIsSuppressed(returned[i])

\* invalidate() leaves everything but the scope's flag and cache as it was
invalidateChangesFlagAndCache ==
    lastOp'.op = "invalidate" =>
        /\ UNCHANGED <<diagnostics, dependencies, files, subscribed, plugin>>
        /\ \A x \in Scopes \ {lastOp'.scope} :
              isValidated'[x] = isValidated[x] /\ cache'[x] = cache[x]
        /\ isValidated'[lastOp'.scope] = FALSE
        /\ cache'[lastOp'.scope] = noCache

\* a change of the dependency graph leaves every diagnostics list as it was
dependencyChangeKeepsDiagnostics ==
    lastOp'.op \in ProgramOperations => diagnostics' = diagnostics

\* getDiagnostics() returns the merged lists and changes neither the list nor
\* the flag; right after the host's validate() and invalidate() the scope-level
\* part is what that validate() left
getDiagnosticsMergesAndKeeps ==
    lastOp'.op = "getDiagnostics" =>
        LET s == lastOp'.scope
        IN  /\ diagnostics' = diagnostics
            /\ isValidated' = isValidated
            /\ merged(lastOp'.value, diagnostics[s], s)
            /\ lastRun[s].stage = "invalidated" =>
                  merged(lastOp'.value, lastRun[s].diagnostics, s)

\* C33: invalidate() changes only the isValidated flag and the cache of its
\* scope and leaves the diagnostics list as it was, as a dependency change
\* does; so until the next validate(), getDiagnostics() returns the scope-level
\* diagnostics of the last validation followed by the current diagnostics of
\* the own files without a typedef, without those the suppression predicate
\* matches, and getDiagnostics() changes neither the list nor isValidated.
C33_InvalidateKeepsDiagnostics ==
    [][/\ invalidateChangesFlagAndCache
       /\ dependencyChangeKeepsDiagnostics
       /\ getDiagnosticsMergesAndKeeps]_vars

\* getDiagnostics() on the source scope, invalid again after a validate() that
\* ran through, returned what that validate() pushed and the parse error of
\* source/a.brs, and left out the suppressed diagnostic of that file
C33_ReadAfterInvalidate ==
    /\ lastOp.op = "getDiagnostics"
    /\ lastOp.scope = SourceScope
    /\ stack = <<>>
    /\ isValidated[SourceScope] = FALSE
    /\ FA \in directFiles(SourceScope)
    /\ \E i \in 1..Len(lastOp.value) :
          /\ lastOp.value[i].code = "plugin"
          /\ lastOp.value[i].arg = <<"afterScopeValidate", SourceScope>>
    /\ \E i \in 1..Len(lastOp.value) :
          lastOp.value[i].code = "parseError" /\ lastOp.value[i].file = FA
    /\ Len(unsuppressed(BscFile(FA).diagnostics)) < Len(BscFile(FA).diagnostics)

====
